---- MODULE Spec2Model ----
(***************************************************************************)
(* Promise engine of the slither runtime (src/src/intrinsics/promise.rs,   *)
(* src/src/intrinsics/promise_prototype.rs) over the slot model of         *)
(* src/src/value.rs.                                                       *)
(*                                                                         *)
(* The heap is three tables: promises (Custom objects carrying the promise *)
(* slots), fns (function objects with their slot tables) and guards (the   *)
(* "already resolved" Custom objects).  A Value is a record [t, n]: n is   *)
(* the number itself, an index into one of the tables, or the code of an   *)
(* Error object's message.  Object identity is the table index.            *)
(***************************************************************************)
EXTENDS Integers, Sequences, FiniteSets, TLC

VARIABLES
    promises,   \* heap: promise objects and their slots
    fns,        \* heap: function objects and their slots
    guards,     \* heap: "already resolved" objects, slot "resolved"
    jobs,       \* the agent's microtask queue (FIFO of [reaction, argument])
    calls,      \* history: invocations of user functions, in order
    jobsRun,    \* history: number of reaction jobs run so far
    panicked,   \* an unreachable!() / panic!() was hit
    origin,     \* history: per promise, the operation that created it
    adopted,    \* history: <<P, X>> : P's resolve function took promise X
    called,     \* history: promises whose kept pair the script has called
    last,       \* history: the most recent step; for a call of a kept pair,
                \* whether it was the first call on the pair and what it returned
    mio_map,    \* agent.mio_map: token -> pending operation (Timer or FS entry)
    RESPONSES,  \* fs.rs RESPONSES: token -> response of a worker
    TIMERS,     \* timers.rs TIMERS: list of [instant, timers] nodes
    THREAD,     \* timers.rs THREAD: the timer thread (spawned, parked, park token)
    ops,        \* the asynchronous operations started so far, with the state of
                \* each one's readiness handle and worker closure
    events,     \* the events of the current poll that are not handled yet
    main,       \* the main thread: phase of the run loop and the native call
                \* it is in the middle of
    now,        \* Instant::now()
    objects,    \* heap: the objects (ObjectInfo) of the value model
    out,        \* the most recent operation on the value model and its result
    SYMBOL_COUNTER, \* value.rs SYMBOL_COUNTER
    callers,    \* per thread: where it is in Symbol::new and what it loaded
    symbols     \* history: the symbols returned by Symbol::new, in order

asyncVars == <<mio_map, RESPONSES, TIMERS, THREAD, ops, events, main, now>>

objVars == <<objects, out>>

symVars == <<SYMBOL_COUNTER, callers, symbols>>

\* the threads that create symbols
Threads == {1, 2}

engineVars == <<promises, fns, guards, jobs, calls, jobsRun, panicked, origin,
                adopted, called, last>>

vars == <<promises, fns, guards, jobs, calls, jobsRun, panicked, origin, adopted,
          called, last, mio_map, RESPONSES, TIMERS, THREAD, ops, events, main, now,
          objects, out, SYMBOL_COUNTER, callers, symbols>>

----------------------------------------------------------------------------
\* Bounds of the model

\* objects on the heap, and entries of all their property tables together
MaxObjects == 2
MaxProps == 2

\* the script stops creating promises once the heap holds this many
MaxPromises == 3

\* of these, the script constructs all but one itself at most
MaxConstructed == MaxPromises - 1

----------------------------------------------------------------------------
\* Values (src/src/value.rs, enum Value)

Null == [t |-> "null", n |-> 0]
Num(k) == [t |-> "number", n |-> k]
Prom(i) == [t |-> "promise", n |-> i]
Fn(i) == [t |-> "function", n |-> i]
Err(c) == [t |-> "error", n |-> c]

\* what a slot table holds for a key that was never set (no Value)
Absent == [t |-> "absent", n |-> 0]

\* messages of Error objects, by code
SelfResolutionError == Err(0)   \* "cannot resolve a promise with itself"
NotAFunctionError == Err(3)     \* "value is not a function"
UserError == Err(1)             \* thrown by the script's throwing handler
UserRejection == Err(2)         \* reason the script passes to Promise.reject

type_of(v) ==
    CASE v.t = "function" -> "function"
      [] v.t \in {"promise", "error"} -> "object"
      [] OTHER -> v.t

\* only promise objects carry the slot "promise state" in this model
has_slot_promise_state(v) == v.t = "promise"

\* Value::new_list(): a fresh, empty List
new_list == [isList |-> TRUE, q |-> <<>>]
\* a slot holding Value::Null where a List was
NullList == [isList |-> FALSE, q |-> <<>>]

----------------------------------------------------------------------------
\* Objects, keys and properties (src/src/value.rs)

\* Value::Object(o): a reference to entry i of the heap `objects`
Ref(i) == [t |-> "ref", n |-> i]

\* the value an operation gives when it hits unreachable!() or panic!()
Panic == [t |-> "panic", n |-> 0]

\* enum ObjectKey: Number(usize), String(String), Symbol(Symbol(id, private, _));
\* a string is the sequence of the codes of its characters
Key_Number(k) == [tag |-> "Number", n |-> k, s |-> <<>>, private |-> FALSE]
Key_String(s) == [tag |-> "String", n |-> 0, s |-> s, private |-> FALSE]
Key_Symbol(id, private) ==
    [tag |-> "Symbol", n |-> id, s |-> <<>>, private |-> private]

\* usize::to_string: the decimal digits, '0' being the character 48
RECURSIVE to_string(_)
to_string(n) ==
    IF n < 10 THEN <<48 + n>> ELSE to_string(n \div 10) \o <<48 + (n % 10)>>

\* usize::partial_cmp
usize_cmp(a, b) == IF a < b THEN "Less" ELSE IF a > b THEN "Greater" ELSE "Equal"

\* String::partial_cmp: lexicographic order of the characters
RECURSIVE str_cmp(_, _)
str_cmp(a, b) ==
    IF a = <<>> THEN (IF b = <<>> THEN "Equal" ELSE "Less")
    ELSE IF b = <<>> THEN "Greater"
    ELSE IF Head(a) # Head(b) THEN usize_cmp(Head(a), Head(b))
    ELSE str_cmp(Tail(a), Tail(b))

\* impl PartialOrd for ObjectKey: in both mixed arms it is the number's
\* string that is compared with the string, n.to_string().partial_cmp(s)
partial_cmp(self, other) ==
    CASE self.tag = "Number" ->
            (CASE other.tag = "Number" -> usize_cmp(self.n, other.n)
               [] other.tag = "String" -> str_cmp(to_string(self.n), other.s)
               [] OTHER -> "Less")
      [] self.tag = "String" ->
            (CASE other.tag = "String" -> str_cmp(self.s, other.s)
               [] other.tag = "Number" -> str_cmp(to_string(other.n), self.s)
               [] OTHER -> "Less")
      [] OTHER ->
            (CASE other.tag = "Symbol" -> "Equal"
               [] OTHER -> "Greater")

\* impl PartialEq for ObjectKey
key_eq(self, other) ==
    CASE self.tag = "Number" ->
            (CASE other.tag = "Number" -> self.n = other.n
               [] other.tag = "String" -> to_string(self.n) = other.s
               [] OTHER -> FALSE)
      [] self.tag = "String" ->
            (CASE other.tag = "String" -> self.s = other.s
               [] other.tag = "Number" -> to_string(other.n) = self.s
               [] OTHER -> FALSE)
      [] OTHER -> other.tag = "Symbol" /\ self.n = other.n
                  /\ self.private = other.private

\* impl Hash for ObjectKey: what is fed to the hasher
key_hash(self) ==
    CASE self.tag = "Number" -> <<0, to_string(self.n)>>
      [] self.tag = "String" -> <<1, self.s>>
      [] OTHER -> <<2, <<self.n, IF self.private THEN 1 ELSE 0>> >>

\* IndexMap: the entries in insertion order; an entry is found by a key with
\* the same hash that is equal to it.  0 when there is none.
get_index_of(properties, key) ==
    LET found == {i \in DOMAIN properties :
                     /\ key_hash(properties[i].key) = key_hash(key)
                     /\ key_eq(properties[i].key, key)}
    IN  IF found = {} THEN 0 ELSE CHOOSE i \in found : \A j \in found : i <= j

contains_key(properties, key) == get_index_of(properties, key) # 0

\* a variant of insert that keeps the value of an entry that is there
IndexMap_insert_keeping(properties, key, value) ==
    IF contains_key(properties, key)
    THEN properties
    ELSE Append(properties, [key |-> key, value |-> value])

\* IndexMap::insert: the value of the entry is replaced, or a new entry is
\* appended
IndexMap_insert(properties, key, value) ==
    IF contains_key(properties, key)
    THEN [properties EXCEPT ![get_index_of(properties, key)].value = value]
    ELSE Append(properties, [key |-> key, value |-> value])

\* a variant of the private-symbol test that takes no key for private
is_private_never(key) == FALSE

\* if let ObjectKey::Symbol(Symbol(_, true, _)) = property
is_private(key) == key.tag = "Symbol" /\ key.private

\* FunctionKind, a set of flags (bitflags)
FunctionKind_Normal == {"Normal"}
FunctionKind_Generator == {"Generator"}
FunctionKind_Async == {"Async"}
FunctionKind_Arrow == {"Arrow"}

\* what the interpreter or the native entry point makes of a function's body;
\* an object that is not a function has none
NoBody == [kind |-> "none", v |-> Null]

\* struct ObjectInfo, as Value::new_object(prototype) makes it; fkind and body
\* are the fields of ObjectKind::BytecodeFunction and BuiltinFunction
ObjectInfo(kind, prototype) ==
    [kind |-> kind, properties |-> <<>>, prototype |-> prototype, slots |-> {},
     fkind |-> {}, body |-> NoBody]

\* Value::new_bytecode_function, Value::new_builtin_function
FunctionInfo(kind, fkind, body, prototype) ==
    [ObjectInfo(kind, prototype) EXCEPT !.fkind = fkind, !.body = body]

\* Value::type_of
Value_type_of(H, v) ==
    CASE v.t = "ref" ->
            (IF H[v.n].kind \in {"BytecodeFunction", "BuiltinFunction"}
             THEN "function" ELSE "object")
      [] v.t = "error" -> "object"
      [] OTHER -> v.t

\* ObjectInfo::get
RECURSIVE ObjectInfo_get(_, _, _)
ObjectInfo_get(H, self, property) ==
    IF contains_key(H[self].properties, property)
    THEN H[self].properties[get_index_of(H[self].properties, property)].value
    ELSE IF is_private(property)
    THEN Null                               \* don't traverse for private symbol
    ELSE CASE H[self].prototype.t = "ref" ->
                 ObjectInfo_get(H, H[self].prototype.n, property)
           [] H[self].prototype = Null -> Null
           [] OTHER -> Panic                                  \* unreachable!()

\* a variant of set that writes into the object that holds the key
set_target_holder(self, receiver) == self

\* the object whose own property table set writes: receiver.properties
set_target(self, receiver) == receiver

\* ObjectInfo::set; the result is [objects, v]
RECURSIVE ObjectInfo_set(_, _, _, _, _)
ObjectInfo_set(H, self, property, value, receiver) ==
    IF is_private(property) \/ contains_key(H[self].properties, property)
    THEN [objects |-> [H EXCEPT ![set_target(self, receiver)].properties =
                                    IndexMap_insert(@, property, value)],
          v |-> value]
    ELSE CASE H[self].prototype.t = "ref" ->
                 ObjectInfo_set(H, H[self].prototype.n, property, value, receiver)
           [] H[self].prototype = Null ->
                 [objects |-> [H EXCEPT ![receiver].properties =
                                           IndexMap_insert(@, property, value)],
                  v |-> value]
           [] OTHER -> [objects |-> H, v |-> Panic]           \* unreachable!()

\* [T]::sort of a short vector: every element is moved left past the elements
\* it is less than (insertion from the left; stable)
RECURSIVE insert_tail(_, _)
insert_tail(sorted, key) ==
    IF sorted # <<>> /\ partial_cmp(key, sorted[Len(sorted)]) = "Less"
    THEN Append(insert_tail(SubSeq(sorted, 1, Len(sorted) - 1), key),
                sorted[Len(sorted)])
    ELSE Append(sorted, key)

RECURSIVE sort(_)
sort(v) ==
    IF v = <<>> THEN <<>>
    ELSE insert_tail(sort(SubSeq(v, 1, Len(v) - 1)), v[Len(v)])

\* the loop of ObjectInfo::keys: the keys of the entries, in insertion order,
\* without the private symbols
RECURSIVE enumerable(_)
enumerable(properties) ==
    IF properties = <<>> THEN <<>>
    ELSE IF is_private(Head(properties).key)
    THEN enumerable(Tail(properties))
    ELSE <<Head(properties).key>> \o enumerable(Tail(properties))

\* ObjectInfo::keys
ObjectInfo_keys(H, self) == sort(enumerable(H[self].properties))

\* Value::get, Value::set and Value::keys on a Value::Object
Value_get(H, o, key) == ObjectInfo_get(H, o, key)
Value_set(H, o, key, value) == ObjectInfo_set(H, o, key, value, o)
Value_keys(H, o) == ObjectInfo_keys(H, o)

\* a bool, as the result of an operation
Bool(b) == [t |-> "boolean", n |-> IF b THEN 1 ELSE 0]

\* the kinds whose ObjectKind carries a slot table:
\* ObjectKind::Custom(slots) | ObjectKind::BuiltinFunction(_, slots)
has_slots(H, this) ==
    this.t = "ref" /\ H[this.n].kind \in {"Custom", "BuiltinFunction"}

\* HashMap::get and HashMap::insert on a slot table, a set of entries with
\* one entry for a key at most
slot_entries(slots, key) == {e \in slots : e.key = key}
slot_insert(slots, key, value) ==
    (slots \ slot_entries(slots, key)) \cup {[key |-> key, value |-> value]}

\* Value::get_slot
Value_get_slot(H, this, key) ==
    IF has_slots(H, this)
    THEN IF slot_entries(H[this.n].slots, key) # {}
         THEN (CHOOSE e \in slot_entries(H[this.n].slots, key) : TRUE).value
         ELSE Panic
    ELSE Panic

\* Value::set_slot; the result is [objects, v], v being Panic or Null for ()
Value_set_slot(H, this, key, value) ==
    IF has_slots(H, this)
    THEN [objects |-> [H EXCEPT ![this.n].slots = slot_insert(@, key, value)],
          v |-> Null]
    ELSE [objects |-> H, v |-> Panic]

\* a variant of has_slot that panics where get_slot and set_slot do
Value_has_slot_panicking(H, this, property) ==
    IF has_slots(H, this)
    THEN Bool(slot_entries(H[this.n].slots, property) # {})
    ELSE Panic

\* Value::has_slot
Value_has_slot(H, this, property) ==
    IF has_slots(H, this)
    THEN Bool(slot_entries(H[this.n].slots, property) # {})
    ELSE Bool(FALSE)

\* the record of an operation on the value model: the operation, the value
\* (or the object) and the key it was applied to, the value and the key list
\* it returned; for construct also new_target, Ok or Err, and the steps taken
NoOut ==
    [op |-> "", this |-> Null, o |-> 0, key |-> Key_Number(0), v |-> Null,
     ks |-> <<>>, ok |-> TRUE, trace |-> <<>>, new_target |-> Null]

----------------------------------------------------------------------------
\* The engine state threaded through the native functions, and their results

State == [promises |-> promises, fns |-> fns, guards |-> guards, jobs |-> jobs,
          calls |-> calls, jobsRun |-> jobsRun, panicked |-> panicked]

\* K applied to the value of x, with x evaluated once (a local `let`)
Let(x, K(_)) == CHOOSE r \in {K(v) : v \in {x}} : TRUE

Ok(S, v) == [s |-> S, ok |-> TRUE, v |-> v]
Thrown(S, v) == [s |-> S, ok |-> FALSE, v |-> v]

\* Value::get_slot returns v.clone(): for a List slot that is a new cell
\* holding a copy of the deque, never the stored cell itself.
get_slot(S, p, key) == S.promises[p][key]

set_slot(S, p, key, v) == [S EXCEPT !.promises[p][key] = v]

\* VecDeque::push_back on a List value
push_back(list, item) == [list EXCEPT !.q = Append(@, item)]

EmptyFn == [code |-> "", promise |-> 0, already_resolved |-> 0,
            value |-> Null, on_finally |-> Null]

\* Agent::enqueue_job: the job goes to the back of the microtask queue
enqueue_job(S, reaction, argument) ==
    [S EXCEPT !.jobs = Append(@, [reaction |-> reaction, argument |-> argument])]

----------------------------------------------------------------------------
\* src/src/intrinsics/promise.rs

\* trigger_promise_reactions: pop the reactions front to back, one job each
RECURSIVE trigger_promise_reactions(_, _, _)
trigger_promise_reactions(S, reactions0, argument) ==
    Let(reactions0, LAMBDA reactions :
        IF ~reactions.isList
        THEN [S EXCEPT !.panicked = TRUE]       \* unreachable!()
        ELSE IF reactions.q = <<>>
        THEN S
        ELSE trigger_promise_reactions(
                 enqueue_job(S, Head(reactions.q), argument),
                 [reactions EXCEPT !.q = Tail(@)],
                 argument))

\* a variant of fulfill_promise that leaves the two reaction slots as they are
fulfill_promise_keeping_reactions(S0, p, value) ==
    Let(S0, LAMBDA S :
        LET reactions == get_slot(S, p, "fulfill_reactions")
            S1 == set_slot(S, p, "result", value)
            S2 == set_slot(S1, p, "state", "fulfilled")
        IN  trigger_promise_reactions(S2, reactions, value))

fulfill_promise(S0, p, value) ==
    Let(S0, LAMBDA S :
        LET reactions == get_slot(S, p, "fulfill_reactions")
            S1 == set_slot(S, p, "result", value)
            S2 == set_slot(S1, p, "state", "fulfilled")
            S3 == set_slot(S2, p, "fulfill_reactions", NullList)
            S4 == set_slot(S3, p, "reject_reactions", NullList)
        IN  trigger_promise_reactions(S4, reactions, value))

reject_promise(S0, p, reason) ==
    Let(S0, LAMBDA S :
        LET reactions == get_slot(S, p, "reject_reactions")
            S1 == set_slot(S, p, "result", reason)
            S2 == set_slot(S1, p, "state", "rejected")
            S3 == set_slot(S2, p, "fulfill_reactions", NullList)
            S4 == set_slot(S3, p, "reject_reactions", NullList)
        IN  trigger_promise_reactions(S4, reactions, reason))

ResolveFn(p, g) == [EmptyFn EXCEPT !.code = "promise_resolve_function",
                                   !.promise = p, !.already_resolved = g]
RejectFn(p, g) == [EmptyFn EXCEPT !.code = "promise_reject_function",
                                  !.promise = p, !.already_resolved = g]

\* a variant in which the reject function gets a guard object of its own
create_resolving_functions_two_guards(S0, p) ==
    Let(S0, LAMBDA S :
        [s |-> [S EXCEPT
                  !.guards = @ \o <<FALSE, FALSE>>,
                  !.fns = @ \o << ResolveFn(p, Len(S.guards) + 1),
                                  RejectFn(p, Len(S.guards) + 2) >>],
         promise |-> p,
         resolve |-> Fn(Len(S.fns) + 1),
         reject |-> Fn(Len(S.fns) + 2)])

\* create_resolving_functions: one guard object, shared by the two functions
create_resolving_functions(S0, p) ==
    Let(S0, LAMBDA S :
        [s |-> [S EXCEPT
                  !.guards = Append(@, FALSE),
                  !.fns = @ \o << ResolveFn(p, Len(S.guards) + 1),
                                  RejectFn(p, Len(S.guards) + 1) >>],
         promise |-> p,
         resolve |-> Fn(Len(S.fns) + 1),
         reject |-> Fn(Len(S.fns) + 2)])

\* a variant of the guard test that never sees the guard as fired
already_resolved_never(S, f) == FALSE

\* the test `already_resolved.get_slot("resolved") == true` of both functions
already_resolved(S, f) == S.guards[S.fns[f].already_resolved]

\* already_resolved.set_slot("resolved", true)
set_resolved(S, f) == [S EXCEPT !.guards[S.fns[f].already_resolved] = TRUE]

\* a variant of the reject function that follows the state of a settled
\* promise it is given
promise_reject_function_following(S0, f, arg) ==
    Let(S0, LAMBDA S :
        IF already_resolved(S, f)
        THEN Ok(S, Null)
        ELSE IF arg.t = "promise" /\ S.promises[arg.n].state = "fulfilled"
        THEN Ok(fulfill_promise(set_resolved(S, f), S.fns[f].promise,
                                S.promises[arg.n].result), Null)
        ELSE IF arg.t = "promise" /\ S.promises[arg.n].state = "rejected"
        THEN Ok(reject_promise(set_resolved(S, f), S.fns[f].promise,
                               S.promises[arg.n].result), Null)
        ELSE Ok(reject_promise(set_resolved(S, f), S.fns[f].promise, arg), Null))

promise_reject_function(S0, f, arg) ==
    Let(S0, LAMBDA S :
        IF already_resolved(S, f)
        THEN Ok(S, Null)
        ELSE Ok(reject_promise(set_resolved(S, f), S.fns[f].promise, arg), Null))

\* a new promise object: pending, with two fresh, empty reaction lists
PendingPromise == [state |-> "pending",
                   result |-> Absent,
                   fulfill_reactions |-> new_list,
                   reject_reactions |-> new_list,
                   resolve |-> Null,
                   reject |-> Null]

\* the function `promise`, called as a constructor with an executor that only
\* keeps the two functions it is given (the capability executor, or a script
\* executor that stores them); the executor does not throw.
\* The result is [s, promise, resolve, reject].
promise(S0) ==
    Let(S0, LAMBDA S :
        create_resolving_functions(
            [S EXCEPT !.promises = Append(@, PendingPromise)],
            Len(S.promises) + 1))

\* new_promise_capability with the Promise constructor: the pair captured by
\* get_capabilities_executor is stored in the promise's "resolve"/"reject" slots
new_promise_capability(S) ==
    Let(promise(S), LAMBDA c :
        Ok(set_slot(set_slot(c.s, c.promise, "resolve", c.resolve),
                    c.promise, "reject", c.reject),
           Prom(c.promise)))

\* Value::new_error(agent, "type error")
TypeError == Err(11)

\* get_capabilities_executor on the slots e = [resolve, reject] of the
\* executor function; the result is [e, ok]
get_capabilities_executor(e, resolve, reject) ==
    IF e.resolve # Null \/ e.reject # Null
    THEN [e |-> e, ok |-> FALSE]
    ELSE [e |-> [resolve |-> resolve, reject |-> reject], ok |-> TRUE]

\* what a constructor passes in a call of the executor it was given: the pair
\* of the promise it makes, Null twice, or two functions of its own
ExecutorArgs(c, passes) ==
    CASE passes = "own" -> <<c.resolve, c.reject>>
      [] passes = "null" -> <<Null, Null>>
      [] OTHER -> <<Fn(5), Fn(5)>>

\* the calls of the executor a constructor makes, one after the other, until
\* one fails; the result is [e, ok]
RECURSIVE call_executor(_, _, _)
call_executor(e, c, todo) ==
    IF todo = <<>> THEN [e |-> e, ok |-> TRUE]
    ELSE Let(get_capabilities_executor(e, ExecutorArgs(c, Head(todo))[1],
                                       ExecutorArgs(c, Head(todo))[2]),
             LAMBDA r : IF r.ok THEN call_executor(r.e, c, Tail(todo)) ELSE r)

\* constructor.construct(agent, vec![executor], constructor) for a constructor
\* that makes a promise and calls the executor as constructor.calls says.
\* It either calls it in its own body, so that an error of the executor is
\* the error of construct, or (inner) in the executor it gives to
\* `new Promise`, where the function `promise` turns the error into a
\* rejection of the promise.  The result is [s, ok, v, e].
construct_capability(S, constructor) ==
    Let(promise(S), LAMBDA c :
        Let(call_executor([resolve |-> Null, reject |-> Null], c,
                          constructor.calls),
            LAMBDA r :
            IF r.ok
            THEN [s |-> c.s, ok |-> TRUE, v |-> Prom(c.promise), e |-> r.e]
            ELSE IF constructor.inner
            THEN [s |-> promise_reject_function(c.s, c.reject.n, TypeError).s,
                  ok |-> TRUE, v |-> Prom(c.promise), e |-> r.e]
            ELSE [s |-> c.s, ok |-> FALSE, v |-> TypeError, e |-> r.e]))

\* new_promise_capability(constructor)
new_promise_capability_of(S, constructor) ==
    Let(construct_capability(S, constructor), LAMBDA r :
        IF ~r.ok
        THEN Thrown(r.s, r.v)
        ELSE Ok(set_slot(set_slot(r.s, r.v.n, "resolve", r.e.resolve),
                         r.v.n, "reject", r.e.reject),
                r.v))

----------------------------------------------------------------------------
\* src/src/intrinsics/promise_prototype.rs: then

\* a variant of the settled arms that enqueues the reaction of the other branch
then_dispatch_other_branch(S0, this, fulfill_reaction, reject_reaction) ==
    Let(S0, LAMBDA S :
        LET state == get_slot(S, this, "state")
        IN  CASE state = "pending" -> S
              [] state = "fulfilled" ->
                    enqueue_job(S, reject_reaction, get_slot(S, this, "result"))
              [] state = "rejected" ->
                    enqueue_job(S, fulfill_reaction, get_slot(S, this, "result"))
              [] OTHER -> [S EXCEPT !.panicked = TRUE])

\* the match on the "promise state" slot at the end of promise_proto_then.
\* In the pending arm both push_back calls act on the value get_slot returned,
\* which is a copy of the stored list; the copy is dropped at the end of the
\* statement and no set_slot follows, so the stored slots keep their contents.
then_dispatch(S0, this, fulfill_reaction, reject_reaction) ==
    Let(S0, LAMBDA S :
        LET state == get_slot(S, this, "state")
        IN  CASE state = "pending" ->
                    LET reactions_f == get_slot(S, this, "fulfill_reactions")
                        reactions_r == get_slot(S, this, "reject_reactions")
                        pushed_f == push_back(reactions_f, fulfill_reaction)
                        pushed_r == push_back(reactions_r, reject_reaction)
                    IN  IF reactions_f.isList /\ reactions_r.isList
                        THEN S
                        ELSE [S EXCEPT !.panicked = TRUE]     \* unreachable!()
              [] state = "fulfilled" ->
                    enqueue_job(S, fulfill_reaction, get_slot(S, this, "result"))
              [] state = "rejected" ->
                    enqueue_job(S, reject_reaction, get_slot(S, this, "result"))
              [] OTHER -> [S EXCEPT !.panicked = TRUE])       \* unreachable!()

\* a handler argument that is not a function is replaced by Null
handler_or_null(a) == IF type_of(a) # "function" THEN Null ELSE a

\* promise_proto_then(this, [a0, a1]); this.constructor is the Promise function
promise_proto_then(S, this, a0, a1) ==
    Let(new_promise_capability(S), LAMBDA cap :
        Ok(then_dispatch(cap.s, this,
               [kind |-> "resolve", promise |-> cap.v, handler |-> handler_or_null(a0)],
               [kind |-> "reject", promise |-> cap.v, handler |-> handler_or_null(a1)]),
           cap.v))

\* promise_proto_catch: then(Null, on_rejected)
promise_proto_catch(S, this, a0) == promise_proto_then(S, this, Null, a0)

----------------------------------------------------------------------------
\* src/src/intrinsics/promise.rs: the resolve function and the static methods

\* a variant of the self-resolution test that never recognises the promise
is_self_resolution_never(p, resolution) == FALSE

\* the test `promise == resolution`: object identity
is_self_resolution(p, resolution) == resolution = Prom(p)

\* the arm of promise_resolve_function for a resolution with promise state:
\* a fresh pair for p is handed to resolution.then
resolve_with_thenable(S, p, resolution) ==
    Let(create_resolving_functions(S, p), LAMBDA rf :
        Let(promise_proto_then(rf.s, resolution.n, rf.resolve, rf.reject),
            LAMBDA then_call_result :
                IF then_call_result.ok
                THEN then_call_result
                ELSE promise_reject_function(then_call_result.s, rf.reject.n,
                                             then_call_result.v)))

promise_resolve_function(S0, f, resolution) ==
    Let(S0, LAMBDA S :
        IF already_resolved(S, f)
        THEN Ok(S, Null)
        ELSE IF is_self_resolution(S.fns[f].promise, resolution)
        THEN Ok(reject_promise(set_resolved(S, f), S.fns[f].promise,
                               SelfResolutionError), Null)
        ELSE IF has_slot_promise_state(resolution)
        THEN resolve_with_thenable(set_resolved(S, f), S.fns[f].promise, resolution)
        ELSE Ok(fulfill_promise(set_resolved(S, f), S.fns[f].promise, resolution),
                Null))

\* promise_resolve_i(c, x) with c the Promise function, the constructor of
\* every promise of the model
promise_resolve_i(S, x) ==
    IF has_slot_promise_state(x)
    THEN Ok(S, x)
    ELSE Let(new_promise_capability(S), LAMBDA capability :
             Let(promise_resolve_function(
                     capability.s,
                     get_slot(capability.s, capability.v.n, "resolve").n,
                     x),
                 LAMBDA r : IF r.ok THEN Ok(r.s, capability.v) ELSE r))

\* Promise.reject(x)
promise_reject(S, x) ==
    Let(new_promise_capability(S), LAMBDA capability :
        Let(promise_reject_function(
                capability.s,
                get_slot(capability.s, capability.v.n, "reject").n,
                x),
            LAMBDA r : IF r.ok THEN Ok(r.s, capability.v) ELSE r))

----------------------------------------------------------------------------
\* The script's functions (bytecode functions; their bodies are inputs)

IncFn == Fn(1)      \* x => x + 1
DblFn == Fn(2)      \* x => x * 2
ThrowFn == Fn(3)    \* () => throw UserError
MkRejFn == Fn(4)    \* () => Promise.reject(UserRejection)
KonstFn == Fn(5)    \* () => 0
ThenCb == Fn(6)     \* () => { Promise.resolve(1).then(x => x + 1) }
ReadCb == Fn(7)     \* () => { readFile(existing file) }
FirstFn == Fn(8)    \* () => p1, the first promise the script made

UserFns ==
    << [EmptyFn EXCEPT !.code = "user_inc"],
       [EmptyFn EXCEPT !.code = "user_dbl"],
       [EmptyFn EXCEPT !.code = "user_throw"],
       [EmptyFn EXCEPT !.code = "user_mkrej"],
       [EmptyFn EXCEPT !.code = "user_konst"],
       [EmptyFn EXCEPT !.code = "user_then_cb"],
       [EmptyFn EXCEPT !.code = "user_read_cb"],
       [EmptyFn EXCEPT !.code = "user_first"] >>

\* Value::call on a bytecode function of the script: the invocation is logged
\* with the number of the reaction job it runs in
CallUser(S0, f, arg) ==
    Let([S0 EXCEPT !.calls = Append(@, [f |-> f, arg |-> arg, job |-> S0.jobsRun])],
        LAMBDA S :
        LET code == S.fns[f].code
        IN  CASE code = "user_inc" ->
                    Ok(S, IF arg.t = "number" THEN Num(arg.n + 1) ELSE Null)
              [] code = "user_dbl" ->
                    Ok(S, IF arg.t = "number" THEN Num(arg.n * 2) ELSE Null)
              [] code = "user_throw" -> Thrown(S, UserError)
              [] code = "user_mkrej" -> promise_reject(S, UserRejection)
              [] code = "user_first" ->
                    Ok(S, IF S.promises # <<>> THEN Prom(1) ELSE Null)
              [] code = "user_then_cb" ->
                    Let(promise_resolve_i(S, Num(1)), LAMBDA pr :
                        Let(promise_proto_then(pr.s, pr.v.n, IncFn, Null),
                            LAMBDA th : Ok(th.s, Null)))
              [] OTHER -> Ok(S, Num(0)))

value_thunk(S, f) == Let(S, LAMBDA S1 : Ok(S1, S1.fns[f].value))

value_thrower(S, f) == Let(S, LAMBDA S1 : Thrown(S1, S1.fns[f].value))

\* the continuation of an async body `return await x` is resumed with the
\* value the awaited promise was fulfilled with: the body returns it, and the
\* outer promise (kept with the continuation) is resolved with it
await_fulfilled(S0, f, arg) ==
    Let(S0, LAMBDA S :
        promise_resolve_function(
            S, get_slot(S, S.fns[f].promise, "resolve").n, arg))

\* the continuation is re-entered to throw the rejection reason: the body
\* throws it, and the outer promise is rejected with it
await_rejected(S0, f, arg) ==
    Let(S0, LAMBDA S :
        promise_reject_function(
            S, get_slot(S, S.fns[f].promise, "reject").n, arg))

\* Value::call for the functions a resolve/reject pair, a thunk or the script
\* can be; anything that is not a function object is "value is not a function"
call_plain(S0, fv, arg) ==
    Let(S0, LAMBDA S :
        IF fv.t # "function"
        THEN Thrown(S, NotAFunctionError)
        ELSE LET code == S.fns[fv.n].code
             IN  CASE code = "promise_resolve_function" ->
                         promise_resolve_function(S, fv.n, arg)
                   [] code = "promise_reject_function" ->
                         promise_reject_function(S, fv.n, arg)
                   [] code = "value_thunk" -> value_thunk(S, fv.n)
                   [] code = "value_thrower" -> value_thrower(S, fv.n)
                   [] code = "await_fulfilled" -> await_fulfilled(S, fv.n, arg)
                   [] code = "await_rejected" -> await_rejected(S, fv.n, arg)
                   [] OTHER -> CallUser(S, fv.n, arg))

----------------------------------------------------------------------------
\* src/src/intrinsics/promise_prototype.rs: finally

\* the tail of then_finally_function / catch_finally_function once on_finally
\* has returned `result`: promise_resolve_i, then `then` with a new wrapper
\* function ("value_thunk" or "value_thrower") holding the argument
finally_continue(S, result, arg, wrapper) ==
    Let(promise_resolve_i(S, result), LAMBDA pr :
        IF ~pr.ok THEN pr
        ELSE promise_proto_then(
                 [pr.s EXCEPT !.fns = Append(@,
                      [EmptyFn EXCEPT !.code = wrapper, !.value = arg])],
                 pr.v.n, Fn(Len(pr.s.fns) + 1), Null))

\* the common body of then_finally_function and catch_finally_function
finally_function(S0, f, arg, wrapper) ==
    Let(S0, LAMBDA S :
        \* on_finally is called with no arguments
        Let(call_plain(S, S.fns[f].on_finally, Null), LAMBDA result :
            IF ~result.ok THEN result                  \* `?`
            ELSE finally_continue(result.s, result.v, arg, wrapper)))

then_finally_function(S, f, arg) == finally_function(S, f, arg, "value_thunk")

catch_finally_function(S, f, arg) == finally_function(S, f, arg, "value_thrower")

promise_proto_finally(S0, this, on_finally) ==
    Let(S0, LAMBDA S :
        IF type_of(on_finally) = "function"
        THEN promise_proto_then(
                 [S EXCEPT !.fns = @ \o
                      << [EmptyFn EXCEPT !.code = "then_finally_function",
                                         !.on_finally = on_finally],
                         [EmptyFn EXCEPT !.code = "catch_finally_function",
                                         !.on_finally = on_finally] >>],
                 this, Fn(Len(S.fns) + 1), Fn(Len(S.fns) + 2))
        ELSE promise_proto_then(S, this, on_finally, on_finally))

\* Value::call on any function object of the model
call(S0, fv, arg) ==
    Let(S0, LAMBDA S :
        IF fv.t # "function"
        THEN Thrown(S, NotAFunctionError)
        ELSE LET code == S.fns[fv.n].code
             IN  CASE code = "then_finally_function" ->
                         then_finally_function(S, fv.n, arg)
                   [] code = "catch_finally_function" ->
                         catch_finally_function(S, fv.n, arg)
                   [] OTHER -> call_plain(S, fv, arg))

----------------------------------------------------------------------------
\* src/src/value.rs: evaluate_body for a function of kind Async

\* perform_await(ctx with the outer promise, value): the awaited value is
\* turned into a promise and a fresh pair of functions that resume the stored
\* continuation is registered on it
perform_await(S, outer, value) ==
    Let(promise_resolve_i(S, value), LAMBDA pr :
        IF ~pr.ok THEN pr
        ELSE promise_proto_then(
                 [pr.s EXCEPT !.fns = @ \o
                      << [EmptyFn EXCEPT !.code = "await_fulfilled",
                                         !.promise = outer],
                         [EmptyFn EXCEPT !.code = "await_rejected",
                                         !.promise = outer] >>],
                 pr.v.n, Fn(Len(pr.s.fns) + 1), Fn(Len(pr.s.fns) + 2)))

\* what interpreter.run gave for the body: Ok(Ok(v)), Ok(Err(e)) or a
\* suspension at an await of v
Returns(v) == [kind |-> "return", v |-> v]
Throws(v) == [kind |-> "throw", v |-> v]
Awaits(v) == [kind |-> "await", v |-> v]

\* a variant in which a value thrown by the body is the error of the call
evaluate_body_async_propagating(S, run) ==
    Let(new_promise_capability(S), LAMBDA capability :
        Let(CASE run.kind = "return" ->
                    call(capability.s, get_slot(capability.s, capability.v.n, "resolve"),
                         run.v)
              [] run.kind = "throw" -> Thrown(capability.s, run.v)
              [] OTHER -> perform_await(capability.s, capability.v.n, run.v),
            LAMBDA r : IF r.ok THEN Ok(r.s, capability.v) ELSE r))

\* the Async branch of evaluate_body (lines 711-736); `run` is the outcome of
\* interpreter.run.  Each of the three calls ends in `?`.
evaluate_body_async(S, run) ==
    Let(new_promise_capability(S), LAMBDA capability :
        Let(CASE run.kind = "return" ->
                    call(capability.s, get_slot(capability.s, capability.v.n, "resolve"),
                         run.v)
              [] run.kind = "throw" ->
                    call(capability.s, get_slot(capability.s, capability.v.n, "reject"),
                         run.v)
              [] OTHER -> perform_await(capability.s, capability.v.n, run.v),
            LAMBDA r : IF r.ok THEN Ok(r.s, capability.v) ELSE r))

----------------------------------------------------------------------------
\* src/src/intrinsics/promise.rs: the reaction job

\* the second half of promise_reaction_job: forward the handler's result to
\* the reaction's promise through its "resolve" or "reject" slot
forward_result(handler_result, target) ==
    IF target # Null
    THEN IF handler_result.ok
         THEN call(handler_result.s,
                   get_slot(handler_result.s, target.n, "resolve"),
                   handler_result.v)
         ELSE call(handler_result.s,
                   get_slot(handler_result.s, target.n, "reject"),
                   handler_result.v)
    ELSE Ok(handler_result.s, Null)

promise_reaction_job(S0, reaction, argument) ==
    Let([S0 EXCEPT !.jobsRun = @ + 1], LAMBDA S :
        Let(IF reaction.handler = Null
            THEN IF reaction.kind = "fulfill"
                 THEN Ok(S, argument)
                 ELSE Thrown(S, argument)
            ELSE call(S, reaction.handler, argument),
            LAMBDA handler_result : forward_result(handler_result, reaction.promise)))

----------------------------------------------------------------------------
\* The state machine: a script drives the promise API, the agent runs jobs

Init ==
    /\ promises = <<>>
    /\ fns = UserFns
    /\ guards = <<>>
    /\ jobs = <<>>
    /\ calls = <<>>
    /\ jobsRun = 0
    /\ panicked = FALSE
    /\ origin = <<>>
    /\ adopted = {}
    /\ called = {}
    /\ last = [op |-> "init", first |-> FALSE, ret |-> Null]
    /\ mio_map = <<>>
    /\ RESPONSES = <<>>
    /\ TIMERS = <<>>
    /\ THREAD = [spawned |-> FALSE, parked |-> FALSE, token |-> FALSE]
    /\ ops = <<>>
    /\ events = {}
    /\ main = [phase |-> "script", pc |-> "", op |-> 0]
    /\ now = 0
    /\ objects = <<>>
    /\ out = NoOut
    /\ SYMBOL_COUNTER = 0
    /\ callers = [t \in Threads |-> [pc |-> "", s |-> 0, private |-> FALSE]]
    /\ symbols = <<>>

\* install the engine state S as the next state
Install(S) ==
    /\ promises' = S.promises
    /\ fns' = S.fns
    /\ guards' = S.guards
    /\ jobs' = S.jobs
    /\ calls' = S.calls
    /\ jobsRun' = S.jobsRun
    /\ panicked' = S.panicked

InternalOrigin == [op |-> "internal", src |-> 0, a0 |-> Null, a1 |-> Null,
                   pre |-> "", resolve |-> 0, reject |-> 0]

\* origin extended to the promises of S: entry `made` for promise `ret`,
\* every other new promise is internal to the engine
Extend(S, ret, made) ==
    [i \in 1..Len(S.promises) |->
        IF i <= Len(origin) THEN origin[i]
        ELSE IF i = ret THEN made
        ELSE InternalOrigin]

\* promises the script holds a reference to
ScriptPromises == {i \in DOMAIN promises : origin[i].op # "internal"}

\* once the agent has started to drain the microtask queue it drains it all
\* before the script (a later turn of the run loop) continues
ScriptTurn == last.op # "job" \/ jobs = <<>>

\* A call on a pair that was called before changes nothing, so a second such
\* call directly after one starts from the same engine state: the script
\* makes it only after some other step.
FreshCall(p) ==
    \/ p \notin called
    \/ last.op \notin {"resolve", "reject"}
    \/ last.first

\* promises the script constructed itself
NewPromises == {i \in DOMAIN promises : origin[i].op = "new"}

ResolveArgs == {Num(1)} \cup {Prom(i) : i \in NewPromises}
RejectArgs == {UserError}
ThenArgs == {<<IncFn, Null>>, <<DblFn, KonstFn>>}
CatchArgs == {KonstFn}
FinallyArgs == {KonstFn, ThrowFn, MkRejFn}

\* new Promise((resolve, reject) => { keep both })
NewPromise ==
    /\ UNCHANGED <<objVars, symVars>>
    /\ ScriptTurn
    /\ Len(promises) < MaxConstructed
    /\ \E c \in {promise(State)} :
           /\ Install(c.s)
           /\ origin' = Extend(c.s, c.promise,
                  [InternalOrigin EXCEPT !.op = "new", !.resolve = c.resolve.n,
                                         !.reject = c.reject.n])
    /\ last' = [op |-> "new", first |-> FALSE, ret |-> Null]
    /\ UNCHANGED <<adopted, called>>
    /\ UNCHANGED asyncVars

\* the script calls the resolve function it kept for promise p
CallResolve(p, x) ==
    /\ UNCHANGED <<objVars, symVars>>
    /\ ScriptTurn
    /\ origin[p].op = "new"
    /\ FreshCall(p)
    /\ \E r \in {promise_resolve_function(State, origin[p].resolve, x)} :
           /\ Install(r.s)
           /\ origin' = Extend(r.s, 0, InternalOrigin)
           /\ last' = [op |-> "resolve", first |-> p \notin called, ret |-> r.v]
    /\ adopted' = IF p \notin called /\ x.t = "promise" /\ x # Prom(p)
                  THEN adopted \cup {<<p, x.n>>}
                  ELSE adopted
    /\ called' = called \cup {p}
    /\ UNCHANGED asyncVars

\* the script calls the reject function it kept for promise p
CallReject(p, x) ==
    /\ UNCHANGED <<objVars, symVars>>
    /\ ScriptTurn
    /\ origin[p].op = "new"
    /\ FreshCall(p)
    /\ \E r \in {promise_reject_function(State, origin[p].reject, x)} :
           /\ Install(r.s)
           /\ origin' = Extend(r.s, 0, InternalOrigin)
           /\ last' = [op |-> "reject", first |-> p \notin called, ret |-> r.v]
    /\ called' = called \cup {p}
    /\ UNCHANGED adopted
    /\ UNCHANGED asyncVars

\* p.then(a0, a1)
Then(p, a0, a1) ==
    /\ UNCHANGED <<objVars, symVars>>
    /\ ScriptTurn
    /\ Len(promises) < MaxPromises
    /\ \E r \in {promise_proto_then(State, p, a0, a1)} :
           /\ Install(r.s)
           /\ origin' = Extend(r.s, r.v.n,
                  [InternalOrigin EXCEPT !.op = "then", !.src = p, !.a0 = a0,
                                         !.a1 = a1, !.pre = promises[p].state])
    /\ last' = [op |-> "then", first |-> FALSE, ret |-> Null]
    /\ UNCHANGED <<adopted, called>>
    /\ UNCHANGED asyncVars

\* p.catch(a0)
Catch(p, a0) ==
    /\ UNCHANGED <<objVars, symVars>>
    /\ ScriptTurn
    /\ Len(promises) < MaxPromises
    /\ \E r \in {promise_proto_catch(State, p, a0)} :
           /\ Install(r.s)
           /\ origin' = Extend(r.s, r.v.n,
                  [InternalOrigin EXCEPT !.op = "catch", !.src = p, !.a0 = Null,
                                         !.a1 = a0, !.pre = promises[p].state])
    /\ last' = [op |-> "catch", first |-> FALSE, ret |-> Null]
    /\ UNCHANGED <<adopted, called>>
    /\ UNCHANGED asyncVars

\* p.finally(a0)
Finally(p, a0) ==
    /\ UNCHANGED <<objVars, symVars>>
    /\ ScriptTurn
    /\ Len(promises) < MaxPromises
    /\ \E r \in {promise_proto_finally(State, p, a0)} :
           /\ Install(r.s)
           /\ origin' = Extend(r.s, r.v.n,
                  [InternalOrigin EXCEPT !.op = "finally", !.src = p, !.a0 = a0,
                                         !.a1 = a0, !.pre = promises[p].state])
    /\ last' = [op |-> "finally", first |-> FALSE, ret |-> Null]
    /\ UNCHANGED <<adopted, called>>
    /\ UNCHANGED asyncVars

\* the agent takes the job at the front of the microtask queue and runs it
RunJob ==
    /\ UNCHANGED <<objVars, symVars>>
    /\ jobs # <<>>
    /\ \E r \in {promise_reaction_job([State EXCEPT !.jobs = Tail(@)],
                                      Head(jobs).reaction, Head(jobs).argument)} :
           /\ Install(r.s)
           /\ origin' = Extend(r.s, 0, InternalOrigin)
    /\ last' = [op |-> "job", first |-> FALSE, ret |-> Null]
    /\ UNCHANGED <<adopted, called>>
    /\ UNCHANGED asyncVars

\* outcomes of the bodies of the script's async functions
AsyncBodies ==
    {Returns(Num(1)), Throws(UserError), Awaits(Num(1))}
    \cup {Returns(Prom(i)) : i \in NewPromises}
    \cup {Awaits(Prom(i)) : i \in NewPromises}

\* the script calls an async function whose body runs as `run`
CallAsync(run) ==
    /\ UNCHANGED <<objVars, symVars>>
    /\ ScriptTurn
    /\ Len(promises) < MaxPromises
    /\ \E r \in {evaluate_body_async(State, run)} :
           /\ Install(r.s)
           /\ origin' = Extend(r.s, Len(promises) + 1,
                  [InternalOrigin EXCEPT !.op = "async", !.a0 = run.v,
                                         !.pre = run.kind])
           /\ last' = [op |-> "async", first |-> FALSE, ret |-> r.v]
    /\ UNCHANGED <<adopted, called>>
    /\ UNCHANGED asyncVars

Next ==
    \/ NewPromise
    \/ \E p \in NewPromises, x \in ResolveArgs : CallResolve(p, x)
    \/ \E p \in NewPromises, x \in RejectArgs : CallReject(p, x)
    \/ \E p \in ScriptPromises, a \in ThenArgs : Then(p, a[1], a[2])
    \/ \E p \in NewPromises, a0 \in CatchArgs : Catch(p, a0)
    \/ \E p \in NewPromises, a0 \in FinallyArgs : Finally(p, a0)
    \/ RunJob

Spec == Init /\ [][Next]_vars

\* the agent's run loop keeps running jobs while the queue is non-empty
FairSpec == Spec /\ WF_vars(RunJob)

\* a script that calls async functions and settles the promises they await
\* or return
AsyncFnNext ==
    \/ NewPromise
    \/ \E p \in NewPromises, x \in ResolveArgs : CallResolve(p, x)
    \/ \E p \in NewPromises, x \in RejectArgs : CallReject(p, x)
    \/ \E run \in AsyncBodies : CallAsync(run)
    \/ RunJob

AsyncFnSpec == Init /\ [][AsyncFnNext]_vars

\* a script whose handlers throw, return a promise or return a number
HandlerArgs == {<<ThrowFn, MkRejFn>>, <<MkRejFn, ThrowFn>>, <<IncFn, KonstFn>>,
                <<FirstFn, Null>>}

HandlerNext ==
    \/ NewPromise
    \/ \E p \in NewPromises, x \in ResolveArgs : CallResolve(p, x)
    \/ \E p \in NewPromises, x \in RejectArgs : CallReject(p, x)
    \/ \E p \in ScriptPromises, a \in HandlerArgs : Then(p, a[1], a[2])
    \/ RunJob

HandlerSpec == Init /\ [][HandlerNext]_vars

\* an ordinary object with a callable "then" property
Thenable == [t |-> "object", n |-> 1]

\* a script that settles its promises with numbers, objects and promises
SettleArgs == {Num(1), Thenable} \cup {Prom(i) : i \in NewPromises}

SettleNext ==
    \/ NewPromise
    \/ \E p \in NewPromises, x \in SettleArgs : CallResolve(p, x)
    \/ \E p \in NewPromises, x \in SettleArgs : CallReject(p, x)
    \/ RunJob

SettleSpec == Init /\ [][SettleNext]_vars

\* the constructors a script passes: each calls the executor once or twice
CapabilityCalls ==
    {<<a>> : a \in {"own", "null", "other"}}
        \cup {<<a, b>> : a \in {"own", "null"}, b \in {"own", "other"}}
Constructors == [calls : CapabilityCalls, inner : BOOLEAN]

\* native code asks for a capability of the script's constructor
NewCapability(constructor) ==
    /\ UNCHANGED <<objVars, symVars>>
    /\ Len(promises) < MaxPromises
    /\ \E r \in {new_promise_capability_of(State, constructor)} :
           /\ Install(r.s)
           /\ origin' = Extend(r.s, 0, InternalOrigin)
           /\ last' = [op |-> "capability", first |-> r.ok, ret |-> r.v]
    /\ UNCHANGED <<adopted, called>>
    /\ UNCHANGED asyncVars

\* native code calls the function in the "resolve" slot of a capability
ResolveCapability(p, x) ==
    /\ UNCHANGED <<objVars, symVars>>
    /\ promises[p].resolve.t = "function"
    /\ p \notin called
    /\ \E r \in {call(State, promises[p].resolve, x)} :
           /\ Install(r.s)
           /\ origin' = Extend(r.s, 0, InternalOrigin)
           /\ last' = [op |-> "resolve", first |-> r.ok, ret |-> r.v]
    /\ called' = called \cup {p}
    /\ UNCHANGED adopted
    /\ UNCHANGED asyncVars

CapabilityNext ==
    \/ \E constructor \in Constructors : NewCapability(constructor)
    \/ \E p \in DOMAIN promises : ResolveCapability(p, Num(1))

CapabilitySpec == Init /\ [][CapabilityNext]_vars

----------------------------------------------------------------------------
\* The asynchronous dispatch layer: src/src/builtins/timers.rs and
\* src/src/builtins/fs.rs, driven by the agent's run loop

\* the script starts at most this many asynchronous operations itself
MaxOps == 2

Str(k) == [t |-> "string", n |-> k]

\* messages of the Error objects of the builtins, by code
CallbackNotFunctionError == Err(4)  \* "callback must be a function"
DurationNotNumberError == Err(5)    \* "duration must be a number"
FilenameNotStringError == Err(6)    \* "filename must be a string"
ContentsNotStringError == Err(7)    \* "contents must be a string"
OsError == Err(8)                   \* format!("{}", e) of the failed OS call

\* HashMap::len, insert (an existing key is overwritten), remove
map_len(m) == Cardinality(DOMAIN m)
map_insert(m, k, v) == [x \in DOMAIN m \cup {k} |-> IF x = k THEN v ELSE m[x]]
map_remove(m, k) == [x \in DOMAIN m \ {k} |-> m[x]]

\* Token(agent.mio_map.borrow().len())
new_token(mm) == map_len(mm)

\* the Registration of operation o is still alive: it is dropped with its
\* mio_map entry, when the entry is removed or replaced by another insert
Registered(mm, os, o) ==
    /\ os[o].token \in DOMAIN mm
    /\ mm[os[o].token].op = o

\* SetReadiness::set_readiness(Ready::readable()) for operation o: an event
\* becomes pending if the registration is alive
set_readiness(mm, os, o) ==
    IF Registered(mm, os, o) THEN [os EXCEPT ![o].ready = TRUE] ELSE os

----------------------------------------------------------------------------
\* src/src/builtins/timers.rs

TimerList_new(instant, timer) == [instant |-> instant, timers |-> <<timer>>]

\* a variant of the first test of insert that never finds an equal deadline
same_instant_never(item, instant) == FALSE

\* item.instant == instant
same_instant(item, instant) == item.instant = instant

\* a variant of the second test of insert with the comparison reversed
later_instant_reversed(item, instant) == item.instant < instant

\* item.instant > instant
later_instant(item, instant) == item.instant > instant

\* Cursor::insert: the new node goes in front of the node peek_next returned
cursor_insert(list, i, node) ==
    SubSeq(list, 1, i - 1) \o <<node>> \o SubSeq(list, i, Len(list))

\* the loop of insert, with the cursor in front of list[i]
RECURSIVE insert_scan(_, _, _, _)
insert_scan(list, i, instant, timer) ==
    IF i > Len(list)
    THEN Append(list, TimerList_new(instant, timer))
    ELSE IF same_instant(list[i], instant)
    THEN [list EXCEPT ![i].timers = Append(@, timer)]
    ELSE IF later_instant(list[i], instant)
    THEN cursor_insert(list, i, TimerList_new(instant, timer))
    ELSE insert_scan(list, i + 1, instant, timer)

insert(list, instant, timer) == insert_scan(list, 1, instant, timer)

\* the while loop of the timer thread over the timers of the head node
RECURSIVE flush(_, _, _)
flush(mm, os, timers) ==
    IF timers = <<>> THEN os
    ELSE flush(mm, set_readiness(mm, os, Head(timers)), Tail(timers))

\* n.to_u64(): None for a negative number
to_u64_is_some(n) == n >= 0

\* an operation record: a timer with its callback and deadline
TimerOp(token, callback, end) ==
    [kind |-> "timer", token |-> token, callback |-> callback, instant |-> end,
     promise |-> Null, os_ok |-> TRUE, st |-> "registered", ready |-> FALSE,
     done |-> FALSE]

MioTimer(o, callback) == [kind |-> "Timer", op |-> o, callback |-> callback,
                          promise |-> Null]

\* what a native call returned to its caller
Return(op, v) == last' = [op |-> op, first |-> FALSE, ret |-> v]

\* a step that is not the return of a native call to the script
NoReturn == last' = [op |-> "step", first |-> FALSE, ret |-> Null]

\* the main thread is running script code: the top-level script, or a
\* callback (callbacks are modelled whole, see timer_callback)
InScript == ~panicked /\ main.phase = "script" /\ main.pc = ""

\* operations the script started itself: every invoked ReadCb callback
\* started one more
ScriptOps ==
    Len(ops) - Cardinality({o \in DOMAIN ops :
                  ops[o].kind = "timer" /\ ops[o].done
                  /\ ops[o].callback = ReadCb})

\* create_timeout up to the insertion into mio_map (lines 65-83)
create_timeout(callback, duration) ==
    /\ UNCHANGED <<objVars, symVars>>
    /\ InScript
    /\ UNCHANGED <<promises, fns, guards, jobs, calls, jobsRun, origin, adopted,
                   called, RESPONSES, TIMERS, THREAD, events, now>>
    /\ IF type_of(callback) # "function"
       THEN /\ Return("createTimeout", CallbackNotFunctionError)
            /\ UNCHANGED <<panicked, mio_map, ops, main>>
       ELSE IF duration.t # "number"
       THEN /\ Return("createTimeout", DurationNotNumberError)
            /\ UNCHANGED <<panicked, mio_map, ops, main>>
       ELSE IF ~to_u64_is_some(duration.n)
       THEN /\ panicked' = TRUE                         \* unwrap() of None
            /\ Return("createTimeout", Null)
            /\ UNCHANGED <<mio_map, ops, main>>
       ELSE /\ ops' = Append(ops, TimerOp(new_token(mio_map), callback,
                                          now + duration.n))
            /\ mio_map' = map_insert(mio_map, new_token(mio_map),
                                     MioTimer(Len(ops) + 1, callback))
            /\ main' = [main EXCEPT !.pc = "insert", !.op = Len(ops) + 1]
            /\ NoReturn
            /\ UNCHANGED panicked

\* the arguments pass the tests of create_timeout and the conversion to u64
valid_timeout(callback, duration) ==
    /\ type_of(callback) = "function"
    /\ duration.t = "number"
    /\ to_u64_is_some(duration.n)

\* the script calls createTimeout(callback, duration)
CreateTimeout(callback, duration) ==
    /\ valid_timeout(callback, duration) => ScriptOps < MaxOps
    /\ create_timeout(callback, duration)

\* insert(end, set_readiness): TIMERS.lock() is granted when the timer thread
\* does not hold the mutex; the thread holds it for one whole iteration of its
\* loop, and so all the time it is parked
TimerInsert ==
    /\ UNCHANGED <<objVars, symVars>>
    /\ ~panicked
    /\ main.pc = "insert"
    /\ ~THREAD.parked
    /\ TIMERS' = insert(TIMERS, ops[main.op].instant, main.op)
    /\ ops' = [ops EXCEPT ![main.op].st = "listed"]
    /\ main' = [main EXCEPT !.pc = "unpark"]
    /\ NoReturn
    /\ UNCHANGED <<promises, fns, guards, jobs, calls, jobsRun, panicked, origin,
                   adopted, called, mio_map, RESPONSES, THREAD, events, now>>

\* THREAD.thread().unpark(): the first use of THREAD spawns the thread; unpark
\* wakes a parked thread, or else leaves the token for its next park()
TimerUnpark ==
    /\ UNCHANGED <<objVars, symVars>>
    /\ ~panicked
    /\ main.pc = "unpark"
    /\ THREAD' = IF THREAD.parked
                 THEN [THREAD EXCEPT !.parked = FALSE]
                 ELSE [THREAD EXCEPT !.spawned = TRUE, !.token = TRUE]
    /\ main' = [main EXCEPT !.pc = "", !.op = 0]
    /\ Return("createTimeout", Null)
    /\ UNCHANGED <<promises, fns, guards, jobs, calls, jobsRun, panicked, origin,
                   adopted, called, mio_map, RESPONSES, TIMERS, ops, events, now>>

\* one iteration of the thread's loop with a head node that is due: every
\* readiness handle of the node is signaled and the node is popped
ThreadFlush ==
    /\ UNCHANGED <<objVars, symVars>>
    /\ ~panicked
    /\ NoReturn
    /\ THREAD.spawned /\ ~THREAD.parked
    /\ TIMERS # <<>>
    /\ now >= Head(TIMERS).instant
    /\ ops' = [o \in DOMAIN ops |->
                 IF \E i \in DOMAIN Head(TIMERS).timers : Head(TIMERS).timers[i] = o
                 THEN [flush(mio_map, ops, Head(TIMERS).timers)[o]
                          EXCEPT !.st = "signaled"]
                 ELSE ops[o]]
    /\ TIMERS' = Tail(TIMERS)
    /\ UNCHANGED <<promises, fns, guards, jobs, calls, jobsRun, panicked, origin,
                   adopted, called, mio_map, RESPONSES, THREAD, events,
                   main, now>>

\* one iteration with an empty list: std::thread::park(), called with the
\* TIMERS guard still alive; it returns at once when the token is set
ThreadPark ==
    /\ UNCHANGED <<objVars, symVars>>
    /\ ~panicked
    /\ NoReturn
    /\ THREAD.spawned /\ ~THREAD.parked
    /\ TIMERS = <<>>
    /\ THREAD' = IF THREAD.token
                 THEN [THREAD EXCEPT !.token = FALSE]
                 ELSE [THREAD EXCEPT !.parked = TRUE]
    /\ UNCHANGED <<promises, fns, guards, jobs, calls, jobsRun, panicked, origin,
                   adopted, called, mio_map, RESPONSES, TIMERS, ops, events,
                   main, now>>

\* park() may return spuriously
ThreadSpuriousWake ==
    /\ UNCHANGED <<objVars, symVars>>
    /\ ~panicked
    /\ NoReturn
    /\ THREAD.parked
    /\ THREAD' = [THREAD EXCEPT !.parked = FALSE]
    /\ UNCHANGED <<promises, fns, guards, jobs, calls, jobsRun, panicked, origin,
                   adopted, called, mio_map, RESPONSES, TIMERS, ops, events,
                   main, now>>

\* deadlines that have not been reached yet
PendingInstants ==
    {TIMERS[i].instant : i \in DOMAIN TIMERS}
    \cup (IF main.pc = "insert" THEN {ops[main.op].instant} ELSE {})

\* time passes (only the time up to the last pending deadline is of interest)
Tick ==
    /\ UNCHANGED <<objVars, symVars>>
    /\ ~panicked
    /\ NoReturn
    /\ \E d \in PendingInstants : now < d
    /\ now' = now + 1
    /\ UNCHANGED <<promises, fns, guards, jobs, calls, jobsRun, panicked, origin,
                   adopted, called, mio_map, RESPONSES, TIMERS, THREAD, ops,
                   events, main>>

----------------------------------------------------------------------------
\* src/src/builtins/fs.rs

\* the files of the model: file 1 exists, file 2 does not
ExistingFile == Str(1)
MissingFile == Str(2)
Contents == Str(10)

\* the FsResponse a worker closure writes: read_to_string / write succeeded
\* or failed with an OS error
FsResponse_Read(o) == [tag |-> "Read", payload |-> Contents, by |-> o]
FsResponse_Success(o) == [tag |-> "Success", payload |-> Null, by |-> o]
FsResponse_Error(o) == [tag |-> "Error", payload |-> OsError, by |-> o]

FsOp(token, p, what, os_ok) ==
    [kind |-> what, token |-> token, callback |-> Null, instant |-> 0,
     promise |-> p, os_ok |-> os_ok, st |-> "submitted", ready |-> FALSE,
     done |-> FALSE]

MioFS(o, p) == [kind |-> "FS", op |-> o, callback |-> Null, promise |-> p]

\* the part of read_file, write_file, ... after the argument tests: promise
\* capability, token, registration, mio_map entry, closure handed to the pool.
\* The result is [s, mio_map, ops, ret].
start_fs_operation(S, mm, os, what, os_ok) ==
    Let(new_promise_capability(S), LAMBDA cap :
        [s |-> cap.s,
         mio_map |-> map_insert(mm, new_token(mm), MioFS(Len(os) + 1, cap.v)),
         ops |-> Append(os, FsOp(new_token(mm), cap.v, what, os_ok)),
         ret |-> cap.v])

\* a native call that returns Err(e) without touching anything
fs_error(S, mm, os, e) == [s |-> S, mio_map |-> mm, ops |-> os, ret |-> e]

\* a variant of read_file that starts the operation whatever the argument is
read_file_unchecked(S, mm, os, filename) ==
    start_fs_operation(S, mm, os, "read", filename = ExistingFile)

read_file(S, mm, os, filename) ==
    IF filename.t = "string"
    THEN start_fs_operation(S, mm, os, "read", filename = ExistingFile)
    ELSE fs_error(S, mm, os, FilenameNotStringError)

write_file(S, mm, os, filename, contents) ==
    IF filename.t = "string"
    THEN IF contents.t = "string"
         THEN start_fs_operation(S, mm, os, "write", filename = ExistingFile)
         ELSE fs_error(S, mm, os, ContentsNotStringError)
    ELSE fs_error(S, mm, os, FilenameNotStringError)

\* the closure of operation o, first statement: the response goes into
\* RESPONSES under the operation's token
worker_response(os, o) ==
    IF ~os[o].os_ok THEN FsResponse_Error(o)
    ELSE IF os[o].kind = "read" THEN FsResponse_Read(o)
    ELSE FsResponse_Success(o)

\* fs::handle once the response is taken: resolve or reject the promise
settle_with(S, fsr, p) ==
    CASE fsr.tag = "Read" -> call(S, get_slot(S, p.n, "resolve"), fsr.payload)
      [] fsr.tag = "Success" -> call(S, get_slot(S, p.n, "resolve"), Null)
      [] OTHER -> call(S, get_slot(S, p.n, "reject"), fsr.payload)

\* fs::handle(token, promise): RESPONSES.remove(&token).unwrap(), then the
\* call of the resolving function, unwrapped.  The result is [s, RESPONSES].
handle(S, responses, token, p) ==
    IF token \notin DOMAIN responses
    THEN [s |-> [S EXCEPT !.panicked = TRUE], RESPONSES |-> responses]
    ELSE Let(settle_with(S, responses[token], p), LAMBDA r :
             [s |-> IF r.ok THEN r.s ELSE [r.s EXCEPT !.panicked = TRUE],
              RESPONSES |-> map_remove(responses, token)])

ReadFile(filename) ==
    /\ UNCHANGED <<objVars, symVars>>
    /\ InScript
    /\ filename.t = "string" => ScriptOps < MaxOps
    /\ \E r \in {read_file(State, mio_map, ops, filename)} :
           /\ Install(r.s)
           /\ mio_map' = r.mio_map
           /\ ops' = r.ops
           /\ Return("readFile", r.ret)
    /\ UNCHANGED <<origin, adopted, called, RESPONSES, TIMERS, THREAD, events,
                   main, now>>

WriteFile(filename, contents) ==
    /\ UNCHANGED <<objVars, symVars>>
    /\ InScript
    /\ (filename.t = "string" /\ contents.t = "string") => ScriptOps < MaxOps
    /\ \E r \in {write_file(State, mio_map, ops, filename, contents)} :
           /\ Install(r.s)
           /\ mio_map' = r.mio_map
           /\ ops' = r.ops
           /\ Return("writeFile", r.ret)
    /\ UNCHANGED <<origin, adopted, called, RESPONSES, TIMERS, THREAD, events,
                   main, now>>

\* a worker of the pool runs the OS call of operation o and writes the response
WorkerInsert(o) ==
    /\ UNCHANGED <<objVars, symVars>>
    /\ ~panicked
    /\ NoReturn
    /\ ops[o].kind \in {"read", "write"}
    /\ ops[o].st = "submitted"
    /\ RESPONSES' = map_insert(RESPONSES, ops[o].token, worker_response(ops, o))
    /\ ops' = [ops EXCEPT ![o].st = "written"]
    /\ UNCHANGED <<promises, fns, guards, jobs, calls, jobsRun, panicked, origin,
                   adopted, called, mio_map, TIMERS, THREAD, events, main,
                   now>>

\* the worker's second statement: set_readiness.set_readiness(..)
WorkerSignal(o) ==
    /\ UNCHANGED <<objVars, symVars>>
    /\ ~panicked
    /\ NoReturn
    /\ ops[o].kind \in {"read", "write"}
    /\ ops[o].st = "written"
    /\ ops' = [set_readiness(mio_map, ops, o) EXCEPT ![o].st = "signaled"]
    /\ UNCHANGED <<promises, fns, guards, jobs, calls, jobsRun, panicked, origin,
                   adopted, called, mio_map, RESPONSES, TIMERS, THREAD,
                   events, main, now>>

----------------------------------------------------------------------------
\* The agent's run loop

\* the top-level script has run to its end: the run loop starts
ScriptEnd ==
    /\ UNCHANGED <<objVars, symVars>>
    /\ InScript
    /\ main' = [main EXCEPT !.phase = "drain"]
    /\ NoReturn
    /\ UNCHANGED <<promises, fns, guards, jobs, calls, jobsRun, panicked, origin,
                   adopted, called, mio_map, RESPONSES, TIMERS, THREAD, ops,
                   events, now>>

\* the run loop takes the job at the front of the microtask queue and runs it
DrainJob ==
    /\ UNCHANGED <<objVars, symVars>>
    /\ ~panicked
    /\ main.phase = "drain"
    /\ jobs # <<>>
    /\ \E r \in {promise_reaction_job([State EXCEPT !.jobs = Tail(@)],
                                      Head(jobs).reaction, Head(jobs).argument)} :
           Install(r.s)
    /\ NoReturn
    /\ UNCHANGED <<origin, adopted, called>>
    /\ UNCHANGED asyncVars

\* a variant of the loop that polls whatever the microtask queue holds
poll_allowed_always(queue) == TRUE

\* the readiness source is polled only with the microtask queue drained
poll_allowed(queue) == queue = <<>>

\* tokens whose readiness is signaled and not yet delivered; a registration
\* dropped in the meantime delivers nothing
ReadyTokens ==
    {ops[o].token : o \in {x \in DOMAIN ops :
                              ops[x].ready /\ Registered(mio_map, ops, x)}}

\* poll: the batch of events of the operations that completed so far
Poll ==
    /\ UNCHANGED <<objVars, symVars>>
    /\ ~panicked
    /\ main.phase = "drain"
    /\ poll_allowed(jobs)
    /\ ReadyTokens # {}
    /\ events' = ReadyTokens
    /\ ops' = [o \in DOMAIN ops |-> [ops[o] EXCEPT !.ready = FALSE]]
    /\ main' = [main EXCEPT !.phase = "handle"]
    /\ NoReturn
    /\ UNCHANGED <<promises, fns, guards, jobs, calls, jobsRun, panicked, origin,
                   adopted, called, mio_map, RESPONSES, TIMERS, THREAD, now>>

\* Value::call of a timer's callback with no arguments, unwrapped; the
\* callback ReadCb calls readFile.  The result is [s, mio_map, ops, ret].
timer_callback(S0, mm, os, callback) ==
    IF callback = ReadCb
    THEN read_file([S0 EXCEPT !.calls = Append(@, [f |-> callback.n, arg |-> Null,
                                                   job |-> S0.jobsRun])],
                   mm, os, ExistingFile)
    ELSE Let(call(S0, callback, Null), LAMBDA r :
             [s |-> IF r.ok THEN r.s ELSE [r.s EXCEPT !.panicked = TRUE],
              mio_map |-> mm, ops |-> os, ret |-> r.v])

\* the loop over the events of a poll: the entry of the event's token is
\* removed from mio_map; a timer's callback is called, a filesystem promise is
\* settled by fs::handle
HandleEvent(token) ==
    /\ UNCHANGED <<objVars, symVars>>
    /\ ~panicked
    /\ main.phase = "handle"
    /\ token \in events
    /\ events' = events \ {token}
    /\ main' = [main EXCEPT !.phase = IF events = {token} THEN "drain" ELSE "handle"]
    /\ NoReturn
    /\ UNCHANGED <<origin, adopted, called, TIMERS, THREAD, now>>
    /\ IF token \notin DOMAIN mio_map
       THEN /\ panicked' = TRUE
            /\ UNCHANGED <<promises, fns, guards, jobs, calls, jobsRun, mio_map,
                           RESPONSES, ops>>
       ELSE IF mio_map[token].kind = "Timer"
       THEN \E r \in {timer_callback(State, map_remove(mio_map, token),
                          [ops EXCEPT ![mio_map[token].op].done = TRUE],
                          mio_map[token].callback)} :
                /\ Install(r.s)
                /\ mio_map' = r.mio_map
                /\ ops' = r.ops
                /\ UNCHANGED RESPONSES
       ELSE \E r \in {handle(State, RESPONSES, token, mio_map[token].promise)} :
                /\ Install(r.s)
                /\ RESPONSES' = r.RESPONSES
                /\ mio_map' = map_remove(mio_map, token)
                /\ ops' = [ops EXCEPT ![mio_map[token].op].done = TRUE]

TimeoutArgs == {<<KonstFn, Num(0)>>, <<KonstFn, Num(1)>>, <<ThenCb, Num(0)>>,
                <<ReadCb, Num(0)>>, <<Null, Num(0)>>, <<KonstFn, Null>>,
                <<KonstFn, Num(-1)>>}
ReadFileArgs == {ExistingFile, MissingFile, Null}
WriteFileArgs == {<<ExistingFile, Contents>>, <<ExistingFile, Null>>,
                  <<Null, Contents>>}

AsyncNext ==
    \/ \E a \in TimeoutArgs : CreateTimeout(a[1], a[2])
    \/ TimerInsert
    \/ TimerUnpark
    \/ ThreadFlush
    \/ ThreadPark
    \/ ThreadSpuriousWake
    \/ Tick
    \/ \E a \in ReadFileArgs : ReadFile(a)
    \/ \E a \in WriteFileArgs : WriteFile(a[1], a[2])
    \/ \E o \in DOMAIN ops : WorkerInsert(o)
    \/ \E o \in DOMAIN ops : WorkerSignal(o)
    \/ ScriptEnd
    \/ DrainJob
    \/ Poll
    \/ \E token \in events : HandleEvent(token)

AsyncSpec == Init /\ [][AsyncNext]_vars

----------------------------------------------------------------------------
\* The timer subsystem alone: a script that only schedules timers, with more
\* deadlines pending at a time than the script of AsyncSpec has

\* the script schedules at most this many timers
MaxTimers == 3

TimerDurations == {Num(0), Num(1), Num(2)}

ScheduleTimeout(duration) ==
    /\ Len(ops) < MaxTimers
    /\ create_timeout(KonstFn, duration)

TimerNext ==
    \/ \E duration \in TimerDurations : ScheduleTimeout(duration)
    \/ TimerInsert
    \/ TimerUnpark
    \/ ThreadFlush
    \/ ThreadPark
    \/ ThreadSpuriousWake
    \/ Tick

TimerSpec == Init /\ [][TimerNext]_vars

----------------------------------------------------------------------------
\* src/src/value.rs: objects, driven by a script

\* the property keys and the values a script uses: the index 2, the string
\* "a" (the character 97) and a private symbol
ObjectKeys == {Key_Number(2), Key_String(<<97>>), Key_Symbol(1, TRUE)}
ObjectValues == {Num(1), Num(2)}

\* the number of entries of all the property tables
RECURSIVE TotalProps(_)
TotalProps(H) ==
    IF H = <<>> THEN 0 ELSE Len(Head(H).properties) + TotalProps(Tail(H))

\* Value::new_object(prototype): the prototype is null or an object
NewObject(prototype) ==
    /\ Len(objects) < MaxObjects
    /\ objects' = Append(objects, ObjectInfo("Ordinary", prototype))
    /\ out' = [NoOut EXCEPT !.op = "new", !.o = Len(objects) + 1]
    /\ UNCHANGED <<engineVars, asyncVars, symVars>>

\* Value::set(key, value) on the object o
SetProperty(o, key, value) ==
    /\ contains_key(objects[o].properties, key) \/ TotalProps(objects) < MaxProps
    /\ \E r \in {Value_set(objects, o, key, value)} :
          /\ objects' = r.objects
          /\ out' = [NoOut EXCEPT !.op = "set", !.o = o, !.key = key, !.v = r.v]
    /\ UNCHANGED <<engineVars, asyncVars, symVars>>

\* Value::get(key) on the object o
GetProperty(o, key) ==
    /\ out' = [NoOut EXCEPT !.op = "get", !.o = o, !.key = key,
                            !.v = Value_get(objects, o, key)]
    /\ UNCHANGED <<objects, engineVars, asyncVars, symVars>>

\* Value::keys() on the object o
Keys(o) ==
    /\ out' = [NoOut EXCEPT !.op = "keys", !.o = o, !.ks = Value_keys(objects, o)]
    /\ UNCHANGED <<objects, engineVars, asyncVars, symVars>>

Prototypes == {Null} \cup {Ref(i) : i \in DOMAIN objects}

ObjectNext ==
    \/ \E prototype \in Prototypes : NewObject(prototype)
    \/ \E o \in DOMAIN objects, key \in ObjectKeys, value \in ObjectValues :
          SetProperty(o, key, value)
    \/ \E o \in DOMAIN objects, key \in ObjectKeys : GetProperty(o, key)
    \/ \E o \in DOMAIN objects : Keys(o)

ObjectSpec == Init /\ [][ObjectNext]_vars

----------------------------------------------------------------------------
\* src/src/value.rs: Symbol::new, called from several threads

\* Symbol::new is called at most this many times
MaxSymbols == 3

\* the calls of Symbol::new that have started
SymbolCalls ==
    Len(symbols) + Cardinality({t \in Threads : callers[t].pc = "fetch_add"})

\* thread t enters Symbol::new(private, desc) and builds the symbol:
\* Symbol(SYMBOL_COUNTER.load(Ordering::Relaxed), private, desc)
SymbolLoad(t, private) ==
    /\ callers[t].pc = ""
    /\ SymbolCalls < MaxSymbols
    /\ callers' = [callers EXCEPT ![t] = [pc |-> "fetch_add", s |-> SYMBOL_COUNTER,
                                          private |-> private]]
    /\ UNCHANGED <<SYMBOL_COUNTER, symbols>>
    /\ UNCHANGED <<engineVars, asyncVars, objVars>>

\* SYMBOL_COUNTER.fetch_add(1, Ordering::Relaxed), and the symbol is returned
SymbolFetchAdd(t) ==
    /\ callers[t].pc = "fetch_add"
    /\ SYMBOL_COUNTER' = SYMBOL_COUNTER + 1
    /\ symbols' = Append(symbols, Key_Symbol(callers[t].s, callers[t].private))
    /\ callers' = [callers EXCEPT ![t].pc = ""]
    /\ UNCHANGED <<engineVars, asyncVars, objVars>>

SymbolNext ==
    \/ \E t \in Threads, private \in BOOLEAN : SymbolLoad(t, private)
    \/ \E t \in Threads : SymbolFetchAdd(t)

SymbolSpec == Init /\ [][SymbolNext]_vars

----------------------------------------------------------------------------
\* src/src/value.rs: property names of a script, converted to keys

\* Value::String with the characters s
Value_String(s) == [t |-> "string", n |-> 0, s |-> s]

\* impl From<f64> for ObjectKey, for whole numbers: a number that is not
\* negative is an index, a negative one the string of its digits after "-"
ObjectKey_from_f64(n) ==
    IF n >= 0 THEN Key_Number(n) ELSE Key_String(<<45>> \o to_string(0 - n))

\* Value::to_object_key of a string or a number
to_object_key(v) ==
    CASE v.t = "string" -> Key_String(v.s)
      [] v.t = "number" -> ObjectKey_from_f64(v.n)

\* the names a script uses: the numbers 1 and 10, their decimal strings "1"
\* and "10", and the number -1 with the string "-1"
PropertyNames ==
    {Num(1), Value_String(<<49>>), Num(10), Value_String(<<49, 48>>),
     Num(0 - 1), Value_String(<<45, 49>>)}

\* o[name] = value
SetMember(o, name, value) == SetProperty(o, to_object_key(name), value)

\* o[name]
GetMember(o, name) == GetProperty(o, to_object_key(name))

KeyNext ==
    \/ NewObject(Null)
    \/ \E o \in DOMAIN objects, name \in PropertyNames, value \in ObjectValues :
          SetMember(o, name, value)
    \/ \E o \in DOMAIN objects, name \in PropertyNames : GetMember(o, name)

KeySpec == Init /\ [][KeyNext]_vars

----------------------------------------------------------------------------
\* src/src/value.rs: internal slots, driven by native code

SlotNames == {"promise state", "result"}
SlotKinds == {"Ordinary", "Array", "Custom", "BuiltinFunction"}

\* the values native code applies the slot functions to
SlotValues == {Null, Num(1)} \cup {Ref(i) : i \in DOMAIN objects}

\* a panic aborts the process
Running == out.v # Panic

\* Value::new_object, new_array, new_custom_object, new_builtin_function
NewKind(kind) ==
    /\ Running
    /\ Len(objects) < MaxObjects
    /\ objects' = Append(objects, ObjectInfo(kind, Null))
    /\ out' = [NoOut EXCEPT !.op = "new", !.o = Len(objects) + 1]
    /\ UNCHANGED <<engineVars, asyncVars, symVars>>

SetSlot(this, key, value) ==
    /\ Running
    /\ \E r \in {Value_set_slot(objects, this, key, value)} :
          /\ objects' = r.objects
          /\ out' = [NoOut EXCEPT !.op = "set_slot", !.this = this, !.v = r.v]
    /\ UNCHANGED <<engineVars, asyncVars, symVars>>

GetSlot(this, key) ==
    /\ Running
    /\ out' = [NoOut EXCEPT !.op = "get_slot", !.this = this,
                            !.v = Value_get_slot(objects, this, key)]
    /\ UNCHANGED <<objects, engineVars, asyncVars, symVars>>

HasSlot(this, key) ==
    /\ Running
    /\ out' = [NoOut EXCEPT !.op = "has_slot", !.this = this,
                            !.v = Value_has_slot(objects, this, key)]
    /\ UNCHANGED <<objects, engineVars, asyncVars, symVars>>

SlotNext ==
    \/ \E kind \in SlotKinds : NewKind(kind)
    \/ \E this \in SlotValues, key \in SlotNames, value \in ObjectValues :
          SetSlot(this, key, value)
    \/ \E this \in SlotValues, key \in SlotNames : GetSlot(this, key)
    \/ \E this \in SlotValues, key \in SlotNames : HasSlot(this, key)

SlotSpec == Init /\ [][SlotNext]_vars

----------------------------------------------------------------------------
\* src/src/value.rs: construct

NotAConstructorError == Err(9)      \* "value is not a constructor"
NullToObjectError == Err(10)        \* "cannot convert null to object"

\* ObjectKey::from("prototype")
PrototypeKey == Key_String(<<112, 114, 111, 116, 111, 116, 121, 112, 101>>)

\* agent.intrinsics.object_prototype and function_prototype: the first two
\* objects of the heap
NumIntrinsics == 2
object_prototype == Ref(1)
function_prototype == Ref(2)

\* a variant of the test that rejects arrow functions only
not_constructor_arrow_only(kind) == FunctionKind_Arrow \subseteq kind

\* *kind != FunctionKind::Normal || (*kind & FunctionKind::Arrow == FunctionKind::Arrow)
not_constructor(kind) ==
    kind # FunctionKind_Normal \/ FunctionKind_Arrow \subseteq kind

\* the result of construct: the heap, Ok(v) or Err(v), and the steps taken
ConstructResult(H, ok, v, trace) ==
    [objects |-> H, ok |-> ok, v |-> v, trace |-> trace]

\* the constructing arm of construct, the same for a bytecode function and a
\* builtin function: read new_target's "prototype", allocate this, run the
\* body, choose between its completion value and this
construct_this(H, self, new_target) ==
    IF new_target.t # "ref"
    THEN ConstructResult(H, FALSE, NullToObjectError, <<"prototype">>)
    ELSE LET p == Value_get(H, new_target.n, PrototypeKey)
             prototype == IF Value_type_of(H, p) # "object"
                          THEN object_prototype ELSE p
             H1 == Append(H, ObjectInfo("Ordinary", prototype))
             this == Ref(Len(H) + 1)
             r == H[self.n].body
         IN  IF r.kind = "throw"
             THEN ConstructResult(H1, FALSE, r.v, <<"prototype", "this", "body">>)
             ELSE ConstructResult(H1, TRUE,
                                  IF Value_type_of(H1, r.v) = "object"
                                  THEN r.v ELSE this,
                                  <<"prototype", "this", "body">>)

\* Value::construct
construct(H, self, new_target) ==
    IF self.t = "ref" /\ H[self.n].kind = "BytecodeFunction"
    THEN IF not_constructor(H[self.n].fkind)
         THEN ConstructResult(H, FALSE, NotAConstructorError, <<>>)
         ELSE construct_this(H, self, new_target)
    ELSE IF self.t = "ref" /\ H[self.n].kind = "BuiltinFunction"
    THEN construct_this(H, self, new_target)
    ELSE ConstructResult(H, FALSE, NotAFunctionError, <<>>)

\* the disciplines of the functions a script declares: Normal, Generator or
\* Async, each as an arrow function or not
FunctionKinds ==
    {d \cup a : d \in {FunctionKind_Normal, FunctionKind_Generator,
                       FunctionKind_Async},
                a \in {{}, FunctionKind_Arrow}}

\* the objects of the heap the script made
Made == {i \in DOMAIN objects : i > NumIntrinsics}

\* what the bodies of the script's functions do: return a primitive, return
\* an object made before, or throw
ConstructBodies ==
    {Returns(Num(1)), Throws(UserError)} \cup {Returns(Ref(i)) : i \in Made}

Functions ==
    {i \in Made : objects[i].kind \in {"BytecodeFunction", "BuiltinFunction"}}

\* the declarations of the script: a function that cannot be constructed has
\* one body, since none of it is to run
FunctionDeclarations ==
    {<<FunctionKind_Normal, body>> : body \in ConstructBodies}
        \cup {<<fkind, Returns(Num(1))>> :
                 fkind \in FunctionKinds \ {FunctionKind_Normal}}


\* the agent's intrinsics are made before any script runs
CreateIntrinsics ==
    /\ objects = <<>>
    /\ objects' = <<ObjectInfo("Ordinary", Null),
                    ObjectInfo("Ordinary", object_prototype)>>
    /\ out' = [NoOut EXCEPT !.op = "intrinsics"]
    /\ UNCHANGED <<engineVars, asyncVars, symVars>>

\* Value::new_bytecode_function for a declaration of the script
NewBytecodeFunction(fkind, body) ==
    /\ Len(objects) >= NumIntrinsics
    /\ Cardinality(Made) < MaxObjects
    /\ objects' = Append(objects, FunctionInfo("BytecodeFunction", fkind, body,
                                               function_prototype))
    /\ out' = [NoOut EXCEPT !.op = "new", !.o = Len(objects) + 1]
    /\ UNCHANGED <<engineVars, asyncVars, symVars>>

\* Value::new_builtin_function for a native entry point
NewBuiltinFunction(body) ==
    /\ Len(objects) >= NumIntrinsics
    /\ Cardinality(Made) < MaxObjects
    /\ objects' = Append(objects, FunctionInfo("BuiltinFunction", {}, body,
                                               function_prototype))
    /\ out' = [NoOut EXCEPT !.op = "new", !.o = Len(objects) + 1]
    /\ UNCHANGED <<engineVars, asyncVars, symVars>>

\* the script sets the "prototype" property of a function
SetPrototype(f, value) ==
    /\ objects[f].properties = <<>>
    /\ \E r \in {Value_set(objects, f, PrototypeKey, value)} :
          /\ objects' = r.objects
          /\ out' = [NoOut EXCEPT !.op = "set", !.o = f, !.key = PrototypeKey,
                                  !.v = r.v]
    /\ UNCHANGED <<engineVars, asyncVars, symVars>>

\* Value::construct(args, new_target) on the value self
Construct(self, new_target) ==
    /\ Len(objects) >= NumIntrinsics
    /\ Cardinality(Made) <= MaxObjects
    /\ \E r \in {construct(objects, self, new_target)} :
          /\ objects' = r.objects
          /\ out' = [NoOut EXCEPT !.op = "construct", !.this = self,
                                  !.new_target = new_target,
                                  !.ok = r.ok, !.v = r.v, !.trace = r.trace]
    /\ UNCHANGED <<engineVars, asyncVars, symVars>>

ConstructNext ==
    \/ CreateIntrinsics
    \/ \E d \in FunctionDeclarations : NewBytecodeFunction(d[1], d[2])
    \/ \E body \in ConstructBodies : NewBuiltinFunction(body)
    \/ \E f \in Functions, value \in {Num(1)} \cup {Ref(i) : i \in Made \ Functions} :
          SetPrototype(f, value)
    \/ \E self \in {Null, Num(1)} \cup {Ref(i) : i \in Made} :
          \E new_target \in {Null, self} : Construct(self, new_target)

ConstructSpec == Init /\ [][ConstructNext]_vars

----------------------------------------------------------------------------
\* Properties of the promise engine

Settled(p) == promises[p].state # "pending"

\* no job is waiting: everything the settlements so far cause has happened
Quiescent == jobs = <<>>

\* C1: once a promise is fulfilled or rejected, no step (a call of a resolve
\* or reject function, then, catch, finally, or a job) changes its state or
\* its result; the state is always one of pending, fulfilled, rejected.
C1_SettledIsFinal ==
    [][\A p \in DOMAIN promises :
          /\ promises'[p].state \in {"pending", "fulfilled", "rejected"}
          /\ Settled(p) => /\ promises'[p].state = promises[p].state
                           /\ promises'[p].result = promises[p].result]_vars

\* C1 witness: the only promise the script constructed is fulfilled and the
\* script has just called its reject function
C1_Witness ==
    /\ last.op = "reject"
    /\ ~last.first
    /\ \E p \in DOMAIN promises :
          /\ called = {p}
          /\ promises[p].state = "fulfilled"

\* C2: a call of a resolve or reject function whose pair was called before
\* returns Null and changes nothing: not the promises (state, result,
\* reaction queues), not the job queue, and it invokes nothing.
C2_OnlyFirstCallActs ==
    [][(last'.op \in {"resolve", "reject"} /\ ~last'.first) =>
          /\ last'.ret = Null
          /\ UNCHANGED <<promises, fns, guards, jobs, calls, jobsRun, panicked>>]_vars

\* C2 witness: the first call on P's pair was resolve with a promise, P is
\* still pending, and the script has just called P's reject function
C2_Witness ==
    /\ last.op = "reject"
    /\ ~last.first
    /\ \E pr \in adopted :
          /\ called = {pr[1]}
          /\ promises[pr[1]].state = "pending"

\* C3: a then on a pending promise P leaves its two reactions on P's queues
\* for as long as P is pending.
C3_ReactionsRetained ==
    \A q \in DOMAIN promises :
        (/\ origin[q].op = "then"
         /\ origin[q].pre = "pending"
         /\ promises[origin[q].src].state = "pending")
        => /\ \E i \in DOMAIN promises[origin[q].src].fulfill_reactions.q :
                 promises[origin[q].src].fulfill_reactions.q[i].promise = Prom(q)
           /\ \E i \in DOMAIN promises[origin[q].src].reject_reactions.q :
                 promises[origin[q].src].reject_reactions.q[i].promise = Prom(q)

\* C4: then on a settled promise invokes no handler; it puts exactly one job
\* at the back of the queue, the reaction of the matching branch with the
\* stored result; and a handler is invoked only in a step that runs a job.
C4_ThenOnSettledEnqueues ==
    [][/\ \A p \in ScriptPromises, a \in ThenArgs :
             (Then(p, a[1], a[2]) /\ Settled(p)) =>
                 /\ calls' = calls
                 /\ jobs' = Append(jobs,
                       [reaction |->
                           [kind |-> IF promises[p].state = "fulfilled"
                                     THEN "resolve" ELSE "reject",
                            promise |-> Prom(Len(promises) + 1),
                            handler |-> IF promises[p].state = "fulfilled"
                                        THEN a[1] ELSE a[2]],
                        argument |-> promises[p].result])
       /\ calls' # calls => last'.op = "job"]_vars

\* C4 witness: a then was called on a fulfilled promise, its handler has run
\* in a job and the promise then returned is fulfilled
C4_Witness ==
    \E q \in DOMAIN promises :
        /\ origin[q].op = "then"
        /\ origin[q].pre = "fulfilled"
        /\ promises[q].state = "fulfilled"
        /\ \E i \in DOMAIN calls : calls[i].f = origin[q].a0.n /\ calls[i].job >= 1

\* C5: when then or catch was called on a fulfilled promise with an
\* onFulfilled that is not a function, the promise it returned is fulfilled
\* with the same value once the jobs have run.
C5_PassThroughFulfilled ==
    \A q \in DOMAIN promises :
        (/\ origin[q].op \in {"then", "catch"}
         /\ origin[q].pre = "fulfilled"
         /\ type_of(origin[q].a0) # "function"
         /\ Quiescent)
        => /\ promises[q].state = "fulfilled"
           /\ promises[q].result = promises[origin[q].src].result

\* C6: the first call of a promise's resolve function with the promise itself
\* leaves the promise rejected with the self-resolution Error.
C6_SelfResolutionRejects ==
    [][\A p \in NewPromises :
          (CallResolve(p, Prom(p)) /\ p \notin called) =>
              /\ promises'[p].state = "rejected"
              /\ promises'[p].result = SelfResolutionError]_vars

\* C6 witness: a promise is rejected with the self-resolution Error
C6_Witness ==
    \E p \in DOMAIN promises :
        /\ promises[p].state = "rejected"
        /\ promises[p].result = SelfResolutionError

\* C7: for p already fulfilled with 1, once the jobs of
\* p.then(x => x+1).then(x => x*2) have run the final promise is fulfilled
\* with 4.
C7_ChainFulfills ==
    \A q1, q2 \in DOMAIN promises :
        (/\ origin[q1].op = "then" /\ origin[q1].a0 = IncFn
         /\ origin[q1].pre = "fulfilled"
         /\ origin[q2].op = "then" /\ origin[q2].a0 = DblFn
         /\ origin[q2].src = q1
         /\ promises[origin[q1].src].state = "fulfilled"
         /\ promises[origin[q1].src].result = Num(1)
         /\ Quiescent)
        => /\ promises[q2].state = "fulfilled"
           /\ promises[q2].result = Num(4)

\* C8: when P's resolve function was first called with another promise X,
\* then once the jobs have run P is pending, fulfilled or rejected as X is,
\* with X's result.
C8_AdoptsState ==
    \A pr \in adopted :
        Quiescent => /\ promises[pr[1]].state = promises[pr[2]].state
                     /\ promises[pr[1]].result = promises[pr[2]].result

\* C9: when finally(fn) was called on a promise that is now settled and fn
\* returns a plain value, fn has been invoked exactly once with no argument
\* and the promise finally returned is settled as the original is, once the
\* jobs have run.
C9_FinallyPreserves ==
    \A q \in DOMAIN promises :
        (/\ origin[q].op = "finally"
         /\ origin[q].a0 = KonstFn
         /\ Settled(origin[q].src)
         /\ Cardinality({k \in DOMAIN promises : origin[k].op = "finally"}) = 1
         /\ Quiescent)
        => /\ promises[q].state = promises[origin[q].src].state
           /\ promises[q].result = promises[origin[q].src].result
           /\ Cardinality({i \in DOMAIN calls : calls[i].f = KonstFn.n}) = 1
           /\ \A i \in DOMAIN calls : calls[i].f = KonstFn.n => calls[i].arg = Null

\* C10: when finally(fn) was called on a promise that is now settled and fn
\* throws e or returns a promise rejected with e, the promise finally
\* returned is rejected with e once the jobs have run.
C10_FinallyRejects ==
    \A q \in DOMAIN promises :
        (/\ origin[q].op = "finally"
         /\ origin[q].a0 \in {ThrowFn, MkRejFn}
         /\ Settled(origin[q].src)
         /\ Quiescent)
        => /\ promises[q].state = "rejected"
           /\ promises[q].result = IF origin[q].a0 = ThrowFn
                                   THEN UserError ELSE UserRejection

----------------------------------------------------------------------------
\* Properties of the asynchronous dispatch layer

Pending(o) == ~ops[o].done

\* C13: the token of every operation is strictly greater than the token of
\* every operation started before it, and no two pending operations share a
\* token.
C13_TokensIncrease ==
    /\ \A i, j \in DOMAIN ops : i < j => ops[i].token < ops[j].token
    /\ \A i, j \in DOMAIN ops :
          (i # j /\ Pending(i) /\ Pending(j)) => ops[i].token # ops[j].token

\* C12: a worker never writes a response under a token whose response is
\* still in the table, and fs::handle always finds the response of the token
\* it is called with.
C12_OneResponsePerToken ==
    [][/\ \A o \in DOMAIN ops :
             WorkerInsert(o) => ops[o].token \notin DOMAIN RESPONSES
       /\ \A token \in events :
             (/\ HandleEvent(token)
              /\ token \in DOMAIN mio_map
              /\ mio_map[token].kind = "FS") => token \in DOMAIN RESPONSES]_vars

\* every worker has finished and the run loop waits in poll with nothing to
\* deliver: whatever the filesystem operations started so far cause has happened
FsQuiescent ==
    /\ ~panicked
    /\ main.phase = "drain" /\ main.pc = ""
    /\ jobs = <<>>
    /\ events = {}
    /\ ReadyTokens = {}
    /\ \A o \in DOMAIN ops :
          ops[o].kind \in {"read", "write"} => ops[o].st = "signaled"

\* the settlement operation o is to end in
FsSettled(o) ==
    LET p == promises[ops[o].promise.n]
    IN  IF ~ops[o].os_ok
        THEN p.state = "rejected" /\ p.result = OsError
        ELSE /\ p.state = "fulfilled"
             /\ p.result = IF ops[o].kind = "read" THEN Contents ELSE Null

\* C14: once the workers and the run loop have nothing left to do, the promise
\* of every filesystem operation that was started is settled: fulfilled with
\* the payload when the OS call succeeded, rejected with the OS error when not.
C14_FsPromisesSettle ==
    FsQuiescent =>
        \A o \in DOMAIN ops : ops[o].kind \in {"read", "write"} => FsSettled(o)

\* what a filesystem operation that schedules something would change
Scheduling == <<promises, fns, guards, jobs, mio_map, RESPONSES, ops, events>>

\* C15: readFile with a filename that is not a string returns the error
\* "filename must be a string"; writeFile does the same, and returns "contents
\* must be a string" for a string filename with contents that are not a
\* string.  Such a call creates no promise, issues no token, leaves the
\* pending-operation table and the response table as they were and submits no
\* worker job.
C15_InvalidArgsScheduleNothing ==
    [][/\ \A filename \in ReadFileArgs :
             (ReadFile(filename) /\ filename.t # "string") =>
                 /\ last'.ret = FilenameNotStringError
                 /\ UNCHANGED Scheduling
       /\ \A a \in WriteFileArgs :
             (WriteFile(a[1], a[2]) /\ (a[1].t # "string" \/ a[2].t # "string")) =>
                 /\ last'.ret = IF a[1].t # "string" THEN FilenameNotStringError
                                ELSE ContentsNotStringError
                 /\ UNCHANGED Scheduling]_vars

\* readFile was called with a filename that is not a string while another
\* operation was pending
C15_Witness ==
    /\ last.op = "readFile" /\ last.ret = FilenameNotStringError
    /\ \E o \in DOMAIN ops : Pending(o) /\ ops[o].kind = "write"

\* insert waits in TIMERS.lock() for the mutex the parked thread holds
InsertBlocked == main.pc = "insert" /\ THREAD.parked

\* the run loop waits in poll with nothing to deliver
PollIdle ==
    /\ main.phase = "drain" /\ main.pc = ""
    /\ jobs = <<>> /\ events = {} /\ ReadyTokens = {}

\* nothing but a spurious return of park() can happen any more: the timer
\* thread is parked and the main thread waits, in insert or in poll
TimersStuck == ~panicked /\ THREAD.parked /\ (InsertBlocked \/ PollIdle)

\* C16: when the timer thread and the main thread have nothing left to do,
\* the readiness handle of every timer that createTimeout scheduled has been
\* signaled by the timer thread and its callback has been invoked, also for a
\* createTimeout called after earlier timers fired and the list became empty.
C16_TimersFire ==
    TimersStuck =>
        \A o \in DOMAIN ops :
            ops[o].kind = "timer" => (ops[o].st = "signaled" /\ ops[o].done)

\* the deadlines of the list, head to tail
Deadlines(list) == [i \in DOMAIN list |-> list[i].instant]

Ascending(ds) == \A i, j \in DOMAIN ds : i < j => ds[i] <= ds[j]

\* the deadline d put before the first deadline of ds that is greater, or at
\* the tail when there is none
PlacedBeforeFirstGreater(ds, d) ==
    LET greater == {i \in DOMAIN ds : ds[i] > d}
    IN  IF greater = {} THEN Append(ds, d)
        ELSE LET first == CHOOSE i \in greater : \A j \in greater : i <= j
             IN  SubSeq(ds, 1, first - 1) \o <<d>> \o SubSeq(ds, first, Len(ds))

\* C17: the timer list is sorted by deadline, ascending from head to tail,
\* after every insertion and every flush; an insertion of a deadline that no
\* node has puts it before the first node whose deadline is greater, or at the
\* tail when there is none.
C17_ListSorted ==
    /\ []Ascending(Deadlines(TIMERS))
    /\ [][(/\ TimerInsert
           /\ \A i \in DOMAIN TIMERS : TIMERS[i].instant # ops[main.op].instant)
          => Deadlines(TIMERS') =
                 PlacedBeforeFirstGreater(Deadlines(TIMERS), ops[main.op].instant)]_vars

\* the timer just inserted went between two nodes of the list
C17_Witness ==
    /\ main.pc = "unpark"
    /\ Len(TIMERS) = 3
    /\ TIMERS[2].timers = <<main.op>>

\* C18: no two nodes of the timer list share a deadline; an insertion with the
\* deadline of a node of the list appends the handle to the queue of that node
\* and changes nothing else of the list; a flush signals every handle of the
\* head node in the same step.
C18_EqualDeadlinesCoalesce ==
    /\ [](\A i, j \in DOMAIN TIMERS :
             TIMERS[i].instant = TIMERS[j].instant => i = j)
    /\ [][\A i \in DOMAIN TIMERS :
             (TimerInsert /\ TIMERS[i].instant = ops[main.op].instant) =>
                 TIMERS' = [TIMERS EXCEPT ![i].timers = Append(@, main.op)]]_vars
    /\ [][ThreadFlush =>
             \A k \in DOMAIN Head(TIMERS).timers :
                 LET o == Head(TIMERS).timers[k]
                 IN  /\ ops'[o].st = "signaled"
                     /\ Registered(mio_map, ops, o) => ops'[o].ready]_vars

\* a timer was inserted with the deadline of a node of a list of two nodes
C18_Witness ==
    /\ main.pc = "unpark"
    /\ Len(TIMERS) = 2
    /\ \E i \in DOMAIN TIMERS :
          /\ Len(TIMERS[i].timers) = 2
          /\ TIMERS[i].timers[2] = main.op

\* a createTimeout is on its way to THREAD.thread().unpark(): at the unpark,
\* or at an insert that can take the mutex
UnparkComing == main.pc = "unpark" \/ (main.pc = "insert" /\ ~InsertBlocked)

\* C19: no wake-up is lost: whenever the timer thread is parked and no
\* createTimeout is on its way to unpark it, no deadline is waiting for the
\* thread, neither in the list nor in a createTimeout that is inserting it.
C19_NoLostWakeup ==
    (THREAD.parked /\ ~UnparkComing) => PendingInstants = {}

\* C20: createTimeout returns the error "callback must be a function" when
\* its first argument is not a function and "duration must be a number" when
\* its second is not a Number, and then changes nothing: no token, no
\* pending-operation entry, no node of the timer list, no unpark.  With a
\* function and a Number it registers exactly one pending timer entry with one
\* readiness handle (and goes on to return Null).
C20_CreateTimeoutContract ==
    [][\A a \in TimeoutArgs :
          CreateTimeout(a[1], a[2]) =>
              IF type_of(a[1]) # "function" \/ a[2].t # "number"
              THEN /\ last'.ret = IF type_of(a[1]) # "function"
                                  THEN CallbackNotFunctionError
                                  ELSE DurationNotNumberError
                   /\ UNCHANGED <<mio_map, ops, TIMERS, THREAD, main, panicked>>
              ELSE /\ ~panicked'
                   /\ map_len(mio_map') = map_len(mio_map) + 1
                   /\ Len(ops') = Len(ops) + 1
                   /\ mio_map'[ops'[Len(ops')].token] =
                          MioTimer(Len(ops'), a[1])]_vars

----------------------------------------------------------------------------
\* Properties of the promise slots and the reaction queues

\* C30: in every reachable state the "promise state" slot of a promise holds
\* pending, fulfilled or rejected; while it is pending both reaction slots
\* hold a List and the result slot is not set; once it is fulfilled or
\* rejected both reaction slots hold Null and the result slot is set.
C30_SlotsFollowState ==
    \A p \in DOMAIN promises :
        /\ promises[p].state \in {"pending", "fulfilled", "rejected"}
        /\ promises[p].state = "pending" =>
              /\ promises[p].fulfill_reactions.isList
              /\ promises[p].reject_reactions.isList
              /\ promises[p].result = Absent
        /\ promises[p].state # "pending" =>
              /\ promises[p].fulfill_reactions = NullList
              /\ promises[p].reject_reactions = NullList
              /\ promises[p].result # Absent

\* one promise was fulfilled with Null, one rejected, one is still pending
C30_Witness ==
    /\ \E p \in DOMAIN promises :
          promises[p].state = "fulfilled" /\ promises[p].result = Null
    /\ \E p \in DOMAIN promises : promises[p].state = "rejected"
    /\ \E p \in DOMAIN promises : promises[p].state = "pending"

\* the promises that then, catch or finally returned for a call on p made
\* while p was pending: one reaction pair was registered on p for each
RegisteredWhilePending(p) ==
    {q \in DOMAIN origin : /\ origin[q].op \in {"then", "catch", "finally"}
                           /\ origin[q].src = p
                           /\ origin[q].pre = "pending"}

\* the places in the queue js of the jobs of the reactions registered for q
JobsOf(js, q) == {i \in DOMAIN js : js[i].reaction.promise = Prom(q)}

\* C29: in the step that settles a promise p, every reaction pair registered
\* on p by a then while p was pending gets exactly one job: the job of the
\* reaction of the matching queue, carrying the settlement value, and the jobs
\* are queued in the order of registration.
C29_OneJobPerReaction ==
    [][\A p \in DOMAIN promises :
          (promises[p].state = "pending" /\ promises'[p].state # "pending") =>
              /\ \A q \in RegisteredWhilePending(p) :
                    /\ Cardinality(JobsOf(jobs', q)) = 1
                    /\ \A i \in JobsOf(jobs', q) :
                          /\ jobs'[i].argument = promises'[p].result
                          /\ jobs'[i].reaction.kind =
                                 IF promises'[p].state = "fulfilled"
                                 THEN "resolve" ELSE "reject"
              /\ \A q1, q2 \in RegisteredWhilePending(p) :
                    q1 < q2 => \A i \in JobsOf(jobs', q1), j \in JobsOf(jobs', q2) :
                                   i < j]_vars

----------------------------------------------------------------------------
\* Properties of the call of an async function

\* the promise the last call of an async function returned
AsyncReturned == IF last.op = "async" /\ last.ret.t = "promise" THEN last.ret.n ELSE 0

----------------------------------------------------------------------------
\* Properties of objects and their keys

\* the objects on the prototype chain of o, o itself not included
RECURSIVE Ancestors(_, _)
Ancestors(H, o) ==
    IF H[o].prototype.t = "ref"
    THEN {H[o].prototype.n} \cup Ancestors(H, H[o].prototype.n)
    ELSE {}

\* the values the own property table of o holds under exactly the key k
Own(H, o, k) ==
    {H[o].properties[i].value :
        i \in {j \in DOMAIN H[o].properties : H[o].properties[j].key = k}}

\* the entries of the own property table of o, as a set
Entries(H, o) == {H[o].properties[i] : i \in DOMAIN H[o].properties}

\* k is a property of no object from o up its prototype chain
AbsentOnChain(H, o, k) ==
    \A a \in {o} \cup Ancestors(H, o) : Own(H, a, k) = {}

GetOfAbsentIsNull ==
    (out.op = "get" /\ ~out.key.private /\ AbsentOnChain(objects, out.o, out.key))
        => out.v = Null

GetAfterSet ==
    (out.op = "set" /\ out'.op = "get" /\ out'.o = out.o /\ out'.key = out.key)
        => out'.v = out.v

\* C21: get of a non-private key that neither the object nor any object on its
\* prototype chain has returns Null, and a get of the key of an object that
\* follows a set of that key on that object returns the value that was set
C21_GetAndSet == [] GetOfAbsentIsNull /\ [][GetAfterSet]_vars

C21_Witness ==
    /\ out.op = "get" /\ ~out.key.private /\ out.v = Null
    /\ Ancestors(objects, out.o) # {}
    /\ AbsentOnChain(objects, out.o, out.key)
    /\ \E a \in Ancestors(objects, out.o) : objects[a].properties # <<>>

PrivateNotInherited ==
    (/\ out.op = "get" /\ out.key.private
     /\ Own(objects, out.o, out.key) = {}
     /\ \E a \in Ancestors(objects, out.o) : Own(objects, a, out.key) # {})
        => out.v = Null

PrivateSetIsOwn ==
    (out'.op = "set" /\ out'.key.private)
        => /\ Own(objects', out'.o, out'.key) = {out'.v}
           /\ \A e \in Entries(objects, out'.o) :
                 e.key # out'.key => e \in Entries(objects', out'.o)
           /\ \A e \in Entries(objects', out'.o) :
                 e.key # out'.key => e \in Entries(objects, out'.o)

\* C22: get of a private symbol that an ancestor of the object has and the
\* object itself has not returns Null, and set of a private symbol leaves the
\* object with that own property at the value set and its other own
\* properties as they were
C22_PrivateNeverInherited == [] PrivateNotInherited /\ [][PrivateSetIsOwn]_vars

C22_Witness ==
    /\ out.op = "get" /\ out.key.private /\ out.v = Null
    /\ Own(objects, out.o, out.key) = {}
    /\ \E a \in Ancestors(objects, out.o) : Own(objects, a, out.key) # {}

SetIsLocal ==
    out'.op = "set"
        => /\ \A i \in DOMAIN objects : i # out'.o => objects'[i] = objects[i]
           /\ \A a \in Ancestors(objects, out'.o) :
                 Value_get(objects', a, out'.key) = Value_get(objects, a, out'.key)

\* C23: set changes the own property table of no object but the one it is
\* applied to, and get of the key on every ancestor returns what it returned
\* before the set
C23_SetModifiesOnlyReceiver == [][SetIsLocal]_vars

C23_Witness ==
    /\ out.op = "set"
    /\ \E a \in Ancestors(objects, out.o) :
          /\ Own(objects, a, out.key) # {}
          /\ Own(objects, a, out.key) # {out.v}
    /\ Own(objects, out.o, out.key) = {out.v}

\* the class of a key: integer index, string, symbol
Rank(k) == CASE k.tag = "Number" -> 0 [] k.tag = "String" -> 1 [] OTHER -> 2

\* C24: keys returns the own keys of the object that are not private symbols,
\* each once, the integer indices before the strings and the strings before
\* the symbols
C24_KeysOrdered ==
    out.op = "keys"
        => /\ {out.ks[i] : i \in DOMAIN out.ks}
                 = {e.key : e \in {f \in Entries(objects, out.o) : ~f.key.private}}
           /\ \A i, j \in DOMAIN out.ks : i # j => out.ks[i] # out.ks[j]
           /\ \A i, j \in DOMAIN out.ks :
                 i < j => Rank(out.ks[i]) <= Rank(out.ks[j])

----------------------------------------------------------------------------
\* Properties of the internal slots

Misapplied ==
    /\ out.op \in {"get_slot", "set_slot", "has_slot"}
    /\ ~has_slots(objects, out.this)

\* C25 as stated: get_slot, set_slot and has_slot each panic on a value that
\* is not an object of kind Custom or BuiltinFunction
C25_AllThreePanic == Misapplied => out.v = Panic

\* C25: on a value that is not an object of kind Custom or BuiltinFunction,
\* get_slot and set_slot panic and has_slot returns false
C25_HasSlotReturnsFalse ==
    Misapplied => out.v = (IF out.op = "has_slot" THEN Bool(FALSE) ELSE Panic)

C25_Witness ==
    /\ out.op = "has_slot" /\ out.v = Bool(FALSE)
    /\ out.this.t = "ref" /\ objects[out.this.n].kind = "Ordinary"
    /\ \E i \in DOMAIN objects : objects[i].slots # {}

----------------------------------------------------------------------------
\* Properties of construct

\* construct was applied to a bytecode function whose discipline includes
\* Arrow, Generator or Async
NotConstructible(o) ==
    /\ o.op = "construct" /\ o.this.t = "ref"
    /\ objects[o.this.n].kind = "BytecodeFunction"
    /\ objects[o.this.n].fkind
          \cap (FunctionKind_Arrow \cup FunctionKind_Generator
                   \cup FunctionKind_Async) # {}

\* construct was applied to a value that is not a function
NotAFunction(o) ==
    /\ o.op = "construct"
    /\ ~(o.this.t = "ref" /\ objects[o.this.n].kind
                                 \in {"BytecodeFunction", "BuiltinFunction"})

ConstructRejected ==
    /\ NotConstructible(out)
          => ~out.ok /\ out.v = NotAConstructorError /\ out.trace = <<>>
    /\ NotAFunction(out) => ~out.ok /\ out.v = NotAFunctionError

ConstructRejectedAllocatesNothing ==
    NotConstructible(out') => objects' = objects

\* C26: construct on a bytecode function whose discipline includes Arrow,
\* Generator or Async returns the error "value is not a constructor" and has
\* not read new_target's prototype, allocated the this object or run the
\* body; construct on a value that is not a function returns an error
C26_NonConstructorsRejected ==
    [] ConstructRejected /\ [][ConstructRejectedAllocatesNothing]_vars

C26_Witness ==
    /\ NotConstructible(out)
    /\ objects[out.this.n].fkind = FunctionKind_Async
    /\ out.new_target = out.this
    /\ ~out.ok /\ out.v = NotAConstructorError
    /\ \E i \in Made : objects[i].fkind = FunctionKind_Normal

\* construct was applied to a Normal function, bytecode or builtin, with a
\* new_target whose prototype can be read
Constructed ==
    /\ out.op = "construct" /\ out.this.t = "ref"
    /\ \/ objects[out.this.n].kind = "BuiltinFunction"
       \/ /\ objects[out.this.n].kind = "BytecodeFunction"
          /\ objects[out.this.n].fkind = FunctionKind_Normal
    /\ out.new_target.t = "ref"

\* C27: construct on a Normal function returns the completion value of the
\* body when that is an object of any kind, a function object included,
\* returns the newly allocated this object when it is not an object, and
\* returns the value the body threw as its error
C27_CompletionObjectWins ==
    Constructed =>
        LET body == objects[out.this.n].body
            this == Ref(Len(objects))
        IN  IF body.kind = "throw"
            THEN ~out.ok /\ out.v = body.v
            ELSE /\ out.ok
                 /\ out.v = (IF body.v.t = "ref" THEN body.v ELSE this)
                 /\ objects[this.n].kind = "Ordinary"

----------------------------------------------------------------------------
\* Properties of the reaction job

\* the step runs the job at the front of the queue, whose handler is a
\* function of the script and whose reaction has a target promise
UserJobStep ==
    /\ jobs # <<>> /\ jobsRun' = jobsRun + 1
    /\ Head(jobs).reaction.handler.t = "function"
    /\ Head(jobs).reaction.handler.n <= Len(UserFns)
    /\ Head(jobs).reaction.promise # Null

\* what the functions of the script return
HandlerValue(code, arg) ==
    CASE code = "user_inc" -> (IF arg.t = "number" THEN Num(arg.n + 1) ELSE Null)
      [] code = "user_dbl" -> (IF arg.t = "number" THEN Num(arg.n * 2) ELSE Null)
      [] code = "user_then_cb" -> Null
      [] OTHER -> Num(0)

JobSettlesTarget ==
    UserJobStep =>
        LET job == Head(jobs)
            h == job.reaction.handler.n
            target == job.reaction.promise.n
        IN  /\ calls' = Append(calls, [f |-> h, arg |-> job.argument,
                                       job |-> jobsRun + 1])
            /\ \A q \in DOMAIN promises \ {target} :
                  promises'[q].state = promises[q].state
            /\ CASE fns[h].code = "user_throw" ->
                       /\ promises'[target].state = "rejected"
                       /\ promises'[target].result = UserError
                 [] fns[h].code = "user_mkrej" ->
                       \* the promise returned is rejected already: the target
                       \* takes its state through a job with the target's
                       \* reject function
                       /\ promises'[target].state = "pending"
                       /\ Len(jobs') = Len(jobs)
                       /\ LET next == jobs'[Len(jobs')]
                          IN  /\ next.argument = UserRejection
                              /\ next.reaction.handler.t = "function"
                              /\ fns'[next.reaction.handler.n].code
                                    = "promise_reject_function"
                              /\ fns'[next.reaction.handler.n].promise = target
                 [] fns[h].code = "user_first" ->
                       \* the promise returned is one of the script's, settled
                       \* or not: the target is settled by a later job
                       promises'[target].state = "pending"
                 [] OTHER ->
                       /\ promises'[target].state = "fulfilled"
                       /\ promises'[target].result
                             = HandlerValue(fns[h].code, job.argument)

\* the handler FirstFn of q ran and returned the first promise of the script,
\* which is settled, and no job is left
ReturnedPromiseSettled(q) ==
    /\ origin[q].op = "then" /\ origin[q].a0 = FirstFn
    /\ origin[q].pre = "fulfilled" /\ origin[q].src # 1
    /\ \E i \in DOMAIN calls : calls[i].f = FirstFn.n /\ calls[i].job > 0
    /\ promises[1].state # "pending"
    /\ Quiescent

TargetAdopts ==
    \A q \in DOMAIN promises :
        ReturnedPromiseSettled(q)
            => /\ promises[q].state = promises[1].state
               /\ promises[q].result = promises[1].result

\* C31: a reaction job calls its handler once; when the handler throws e the
\* target promise of the reaction is rejected with e, when it returns a value
\* that is no promise the target is fulfilled with it, when it returns a
\* promise the target takes that promise's state; the state of no other
\* promise changes
C31_JobSettlesTarget == [][JobSettlesTarget]_vars /\ [] TargetAdopts

----------------------------------------------------------------------------
\* Properties of the resolve and reject functions

ResolveFulfillsDirectly ==
    \A p \in NewPromises : \A x \in SettleArgs :
        (p \notin called /\ x.t # "promise" /\ CallResolve(p, x))
            => /\ promises'[p].state = "fulfilled"
               /\ promises'[p].result = x
               /\ calls' = calls
               /\ jobs' = jobs

RejectIsVerbatim ==
    \A p \in NewPromises : \A r \in SettleArgs :
        (p \notin called /\ CallReject(p, r))
            => /\ promises'[p].state = "rejected"
               /\ promises'[p].result = r
               /\ Len(promises') = Len(promises)

\* C32: the first call of the resolve function of a promise with a value that
\* is no promise, an object with a callable then included, fulfills the
\* promise with that value within the call and invokes no function; the first
\* call of the reject function rejects it with the value given, a promise
\* included, whose state is not followed
C32_ResolveDirectRejectVerbatim ==
    [][ResolveFulfillsDirectly /\ RejectIsVerbatim]_vars

C32_Witness ==
    \E p, q \in DOMAIN promises :
        /\ promises[p].state = "fulfilled" /\ promises[p].result = Thenable
        /\ promises[q].state = "rejected" /\ promises[q].result = Prom(p)

----------------------------------------------------------------------------
\* Properties of new_promise_capability

\* the constructor calls the executor a second time after the first call
\* gave it a pair
SecondAfterCapture(constructor) ==
    Len(constructor.calls) = 2 /\ constructor.calls[1] = "own"

\* the pair the "resolve" and "reject" slots of the new promise p hold is the
\* pair of functions made for p
HoldsOwnPair(p) ==
    /\ promises'[p].resolve.t = "function"
    /\ fns'[promises'[p].resolve.n].code = "promise_resolve_function"
    /\ fns'[promises'[p].resolve.n].promise = p
    /\ promises'[p].reject.t = "function"
    /\ fns'[promises'[p].reject.n].code = "promise_reject_function"
    /\ fns'[promises'[p].reject.n].promise = p

CapabilityContract ==
    \A constructor \in Constructors :
        NewCapability(constructor) =>
            /\ SecondAfterCapture(constructor) => ~last'.first
            /\ (last'.first /\ constructor.calls[1] = "own")
                  => HoldsOwnPair(Len(promises'))

\* C33: new_promise_capability returns an error when the constructor calls
\* the executor a second time after a pair was captured, and a capability
\* it returns holds in its "resolve" and "reject" slots the pair the
\* constructor passed in the first call
C33_SecondCaptureFails == [][CapabilityContract]_vars

----------------------------------------------------------------------------
\* Properties of the timer thread

\* the handles queued in a node, front to back
Handles(node) == {node.timers[k] : k \in DOMAIN node.timers}

\* the timers whose readiness handle has been signaled
SignaledTimers(os) ==
    {o \in DOMAIN os : os[o].kind = "timer" /\ os[o].ready}

\* a step signals handles only as the flush of a head node that is due: it
\* signals every handle of that node and no other, none of them was signaled
\* before, and the node leaves the list
SignalsDueHeadOnly ==
    SignaledTimers(ops') # SignaledTimers(ops) =>
        /\ TIMERS # <<>>
        /\ now >= Head(TIMERS).instant
        /\ SignaledTimers(ops') \ SignaledTimers(ops) = Handles(Head(TIMERS))
        /\ Handles(Head(TIMERS)) \cap SignaledTimers(ops) = {}
        /\ \A o \in Handles(Head(TIMERS)) :
               ops[o].instant = Head(TIMERS).instant
        /\ TIMERS' = Tail(TIMERS)

\* no handle signaled earlier has a later deadline than the handles a step
\* signals
SignalsInDeadlineOrder ==
    \A o \in SignaledTimers(ops), q \in SignaledTimers(ops') \ SignaledTimers(ops) :
        ops[o].instant <= ops[q].instant

\* every node queues its handles in the order of their insertion (handles
\* are numbered as createTimeout made them), and a handle that is in the list
\* is there once and has not been signaled
QueuedInInsertionOrder ==
    \A i \in DOMAIN TIMERS :
        /\ \A k, l \in DOMAIN TIMERS[i].timers :
               k < l => TIMERS[i].timers[k] < TIMERS[i].timers[l]
        /\ \A j \in DOMAIN TIMERS :
               i # j => Handles(TIMERS[i]) \cap Handles(TIMERS[j]) = {}
        /\ Handles(TIMERS[i]) \cap SignaledTimers(ops) = {}

\* a handle once signaled stays signaled and never returns to the list
SignaledOnce ==
    \A o \in SignaledTimers(ops) :
        /\ o \in SignaledTimers(ops')
        /\ \A i \in DOMAIN TIMERS' : o \notin Handles(TIMERS'[i])

\* C34: the timer thread signals a readiness handle only when the time is
\* at or past its deadline and only for handles of the head node; one flush
\* signals every handle of the head node, front to back in insertion order,
\* and removes the node, so that handles are signaled in non-decreasing
\* deadline order and each handle is signaled once.
C34_FlushSignalsDueHead ==
    /\ [][SignalsDueHeadOnly]_vars
    /\ [][SignalsInDeadlineOrder]_vars
    /\ [][ThreadFlush => SignaledTimers(ops') =
                             SignaledTimers(ops) \cup Handles(Head(TIMERS))]_vars
    /\ [][SignaledOnce]_vars
    /\ []QueuedInInsertionOrder

\* C35: the timer thread never parks holding the lock of the timer list: a
\* createTimeout that has reached insert can always take the lock and do
\* its insertion (after which it goes on to unpark), whatever the timer
\* thread is doing, parked or not.
C35_InsertNeverWaitsForParked ==
    (~panicked /\ main.pc = "insert") => ENABLED TimerInsert

----------------------------------------------------------------------------
\* Properties of the keys of a script's property names

\* after o[a] = v, every name b whose key equals the key of a reads v
AliasReadsWritten ==
    \A o \in DOMAIN objects, a \in PropertyNames, b \in PropertyNames,
       value \in ObjectValues :
        (SetMember(o, a, value) /\ key_eq(to_object_key(a), to_object_key(b)))
            => Value_get(objects', o, to_object_key(b)) = value

\* no object holds two own properties whose keys compare equal
NoEqualOwnKeys ==
    \A o \in DOMAIN objects :
        \A i, j \in DOMAIN objects[o].properties :
            key_eq(objects[o].properties[i].key, objects[o].properties[j].key)
                => i = j

\* C36: an integer index n and the decimal string of n address the same
\* property: after set(O, n, v), get(O, decimal string of n) returns v, and
\* the other way round, and no object ever holds two own properties whose
\* keys compare equal.
C36_IndexAndDecimalStringAlias ==
    /\ [][AliasReadsWritten]_vars
    /\ []NoEqualOwnKeys

----------------------------------------------------------------------------
\* Properties of duplicated values

\* the list in slot key of promise p, as a get_slot after the step returns
\* it, is the list before the step with one more element at the back
PushedOnto(p, key) ==
    /\ Len(promises'[p][key].q) = Len(get_slot(State, p, key).q) + 1
    /\ SubSeq(promises'[p][key].q, 1, Len(get_slot(State, p, key).q))
           = get_slot(State, p, key).q

\* C37: duplicating a Value shares the container: the reaction that then
\* pushes onto the list get_slot returned for a pending promise is in the
\* list every later get_slot of that slot returns.
C37_PushSharedWithSlot ==
    [][\A p \in DOMAIN promises, a \in ThenArgs :
          (Then(p, a[1], a[2]) /\ promises[p].state = "pending") =>
              /\ PushedOnto(p, "fulfill_reactions")
              /\ PushedOnto(p, "reject_reactions")]_vars

----------------------------------------------------------------------------
\* Properties of Symbol::new

\* C38: every call of Symbol::new returns a symbol whose id differs from the
\* id of the symbol of every other call, for any interleaving of calls from
\* any threads; two symbols of different calls never compare equal.
C38_SymbolIdsUnique ==
    \A i, j \in DOMAIN symbols :
        i # j => /\ symbols[i].n # symbols[j].n
                 /\ ~key_eq(symbols[i], symbols[j])

----------------------------------------------------------------------------
\* Properties of the order of keys

\* Ordering::reverse
Reverse(c) ==
    CASE c = "Less" -> "Greater" [] c = "Greater" -> "Less" [] OTHER -> "Equal"

\* the keys of the properties the objects hold: what keys() sorts
HeldKeys ==
    UNION {{objects[o].properties[i].key : i \in DOMAIN objects[o].properties}
              : o \in DOMAIN objects}

\* C39: the order of ObjectKey that sorts keys() is a lawful total order
\* consistent with key equality: cmp(a, b) is the reverse of cmp(b, a),
\* cmp(a, b) is Equal exactly when a == b, and the order is transitive.
C39_KeyOrderLawful ==
    \A a \in HeldKeys, b \in HeldKeys :
        /\ partial_cmp(a, b) = Reverse(partial_cmp(b, a))
        /\ (partial_cmp(a, b) = "Equal") <=> key_eq(a, b)
        /\ \A c \in HeldKeys :
               (partial_cmp(a, b) = "Less" /\ partial_cmp(b, c) = "Less")
                   => partial_cmp(a, c) = "Less"

----------------------------------------------------------------------------
\* Properties of createTimeout with any duration

\* C40: createTimeout with a function and any Number duration, negative
\* ones included, never aborts the engine: it goes on to return Null, or it
\* returns an error value; a duration that cannot be used is reported as an
\* error value and registers no timer.
C40_AnyDurationReturns ==
    [][\A a \in TimeoutArgs :
          (CreateTimeout(a[1], a[2]) /\ type_of(a[1]) = "function"
                                     /\ a[2].t = "number")
              => /\ ~panicked'
                 /\ IF to_u64_is_some(a[2].n)
                    THEN main'.pc = "insert"
                    ELSE /\ last'.op = "createTimeout"
                         /\ last'.ret.t = "error"
                         /\ UNCHANGED <<mio_map, ops, TIMERS, THREAD, main>>]_vars

====
